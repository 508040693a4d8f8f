---------------------------- MODULE SpecPipeline ----------------------------
(***************************************************************************)
(* `npm run generate`: how the published API document becomes the          *)
(* generated types (scripts/, package.json).                               *)
(*                                                                         *)
(*   patch-spec.mjs              corrects the document's known defects and *)
(*                               stops on drift it was not reviewed for;   *)
(*   orval                       empties src/generated and writes it from  *)
(*                               the corrected document (external);        *)
(*   dedupe-generated-index.mjs  drops exports written twice;              *)
(*   widen-response-enums.mjs    opens the enums of answers and leaves     *)
(*                               those of requests closed.                 *)
(*                                                                         *)
(* The chain is run by a developer or a workflow who may refresh the       *)
(* document, run the generator alone and interrupt any script.             *)
(*                                                                         *)
(* A document is [schemas, ops]: a component has fields and allOf bases,   *)
(* an operation has parameters, a body and answers by status, which it may *)
(* leave out altogether. A schema node is reduced to its form and the      *)
(* components it refers to. A generated type is named by a tuple: <<c>> is *)
(* component c's, <<c, f>> the enum hoisted from its field f,              *)
(* <<o, "Params">> the parameters of operation o.                          *)
(*                                                                         *)
(* Left out: DATTO_OPENAPI_SPEC, with which orval can be made to read      *)
(* another document than the one patch-spec.mjs wrote and the codemod      *)
(* reads (orval.config.ts); here both read the corrected one.              *)
(***************************************************************************)
EXTENDS Naturals, Sequences, SequencesExt

CONSTANTS Published,    \* the documents the vendor may publish
          ExportedTwice, \* generated types the generator may export twice
          AliasForms,    \* can the codemod read enum aliases: set of BOOLEAN
          Refreshes      \* bound: refreshes of the document in a behaviour

ASSUME PipelineAssumption ==
    /\ Published # {} /\ AliasForms \subseteq BOOLEAN /\ AliasForms # {}
    /\ Refreshes \in Nat

-----------------------------------------------------------------------------
(* Documents                                                               *)

Node(form, refs) == [form |-> form, refs |-> refs]
Plain == Node("plain", {})
Date == Node("date", {})
Enum == Node("enum", {})
Open == Node("open", {})
Ref(name) == Node("ref", {name})
OneOf(names) == Node("oneOf", names)
\* A number with a `pattern`, and an array with an `enum` its items repeat.
PatternOnNumber == Node("patternOnNumber", {})
DoubledEnum == Node("doubledEnum", {})
\* A response or a request without content.
NoSchema == Node("none", {})

\* What a reference or a composition says is not undone by a type beside it.
Composed(node) == node.form \in {"ref", "oneOf", "allOf", "anyOf"}

\* What is written over what is there.
Over(new, there) ==
    [k \in DOMAIN new \cup DOMAIN there |->
        IF k \in DOMAIN new THEN new[k] ELSE there[k]]

\* The members of a set, one after the other, in an order that is fixed.
Listed(set) == FoldSet(LAMBDA x, list : Append(list, x), <<>>, set)

RefsIn(nodes) == UNION {node.refs : node \in nodes}
Nodes(schema) == Range(schema.fields)
Names(doc) == DOMAIN doc.schemas
ParamNodes(op) == Range(op.params)
AnswerNodes(op) == Range(op.answers)

\* The roots, and all they lead to: what each of the domain of next leads to
\* at once, what that leads to, and so on for as long as there is more.
Followed(roots, next) ==
    LET most == Cardinality(DOMAIN next)
        step(names) ==
            names \cup UNION {next[n] : n \in names \cap DOMAIN next}
        within[i \in 0 .. most] ==
            IF i = 0 THEN roots ELSE step(within[i - 1])
    IN  within[most]

\* The components a component refers to; none when it is not declared.
Targets(doc, name) ==
    IF name \in Names(doc)
    THEN RefsIn(Nodes(doc.schemas[name])) \cup doc.schemas[name].bases
    ELSE {}

\* Everything reachable from roots through $ref, the roots included.
Reached(doc, roots) ==
    Followed(roots, [n \in Names(doc) |-> Targets(doc, n)])

\* What a document is: finite tables of components and operations, whose
\* fields, parameters, bodies and answers are schema nodes. An operation
\* without `responses` has no answers.
IsTable(f) == IsFiniteSet(DOMAIN f) /\ f = [k \in DOMAIN f |-> f[k]]
IsNode(node) == node = Node(node.form, node.refs)
IsNodes(f) == IsTable(f) /\ \A k \in DOMAIN f : IsNode(f[k])
IsSchema(schema) ==
    /\ schema = [fields |-> schema.fields, bases |-> schema.bases]
    /\ IsNodes(schema.fields)
IsOperation(op) ==
    /\ op = [params |-> op.params, body |-> op.body, answers |-> op.answers,
             responds |-> op.responds]
    /\ IsNodes(op.params) /\ IsNode(op.body) /\ IsNodes(op.answers)
    /\ op.responds \in BOOLEAN
    /\ ~op.responds => DOMAIN op.answers = {}
IsDocument(doc) ==
    /\ doc = [schemas |-> doc.schemas, ops |-> doc.ops]
    /\ IsTable(doc.schemas) /\ \A n \in Names(doc) : IsSchema(doc.schemas[n])
    /\ IsTable(doc.ops) /\ \A o \in DOMAIN doc.ops : IsOperation(doc.ops[o])

ASSUME DocumentsAssumption == \A doc \in Published : IsDocument(doc)

-----------------------------------------------------------------------------
(* patch-spec.mjs                                                          *)

TIMESTAMP_FIELDS ==
    [Device |-> {"lastSeen", "lastReboot", "lastAuditDate", "creationDate"},
     AuthUser |-> {"created", "lastAccess"},
     Alert |-> {"timestamp", "resolvedOn"}]

REQUEST_RESPONSE_SPLITS ==
    {[sharedSchema |-> "ProxySettings",
      requestSchema |-> "ProxySettingsRequest",
      bodies |-> {"POST /v2/site/{siteUid}/settings/proxy"},
      fields |-> {<<"CreateSiteRequest", "proxySettings">>}]}

EXPECTED_ORPHANED_COMPONENTS ==
    {"AlertContext", "ActionContext", "AntivirusContext",
     "BackupManagementContext", "CustomSNMPContext", "DiskHealthContext",
     "DiskUsageContext", "EndpointSecurityThreatContext",
     "EndpointSecurityWindowsDefenderContext", "EventLogContext",
     "FanContext", "FileSystemContext", "NetworkMonitorContext",
     "OnlineOfflineStatusContext", "PatchContext", "PingContext",
     "PrinterContext", "PsuContext", "RansomWareContext",
     "ResourceUsageContext", "SNMPProbeContext", "ScriptContext",
     "SecCenterContext", "SecurityManagementContext", "StatusContext",
     "TemperatureContext", "WindowsPerformanceContext", "WmiContext"}

VOID_WRITE_OPERATIONS ==
    {"PUT /v2/site/{siteUid}/variable",
     "PUT /v2/device/{deviceUid}/site/{siteUid}",
     "PUT /v2/account/variable",
     "POST /v2/site/{siteUid}/variable/{variableId}",
     "DELETE /v2/site/{siteUid}/variable/{variableId}",
     "POST /v2/device/{deviceUid}/warranty",
     "POST /v2/device/{deviceUid}/udf",
     "POST /v2/alert/{alertUid}/resolve",
     "POST /v2/account/variable/{variableId}",
     "DELETE /v2/account/variable/{variableId}"}

AllNodes(doc) ==
    UNION ({Nodes(schema) : schema \in Range(doc.schemas)}
             \cup {ParamNodes(op) \cup AnswerNodes(op) \cup {op.body} :
                     op \in Range(doc.ops)})

\* Every schema node of the document becomes what visit makes of it.
walkAllSchemaNodes(doc, visit) ==
    LET all(nodes) == [k \in DOMAIN nodes |-> visit[nodes[k]]]
    IN  [schemas |->
            [n \in Names(doc) |->
                [doc.schemas[n] EXCEPT !.fields = all(@)]],
         ops |->
            [o \in DOMAIN doc.ops |->
                [params |-> all(doc.ops[o].params),
                 body |-> visit[doc.ops[o].body],
                 answers |-> all(doc.ops[o].answers),
                 responds |-> doc.ops[o].responds]]]

\* What the component keys of the instances normalize to: blanks go, any
\* other character OpenAPI does not allow stays.
toPascalCase(name) ==
    CASE name = "Variable Creation Request" -> "VariableCreationRequest"
      [] name = "Account Descriptor" -> "AccountDescriptor"
      [] OTHER -> name

\* An operation is named by its method and its path, which no component is.
NamesApart(doc) ==
    \A o \in DOMAIN doc.ops :
        /\ \A n \in Names(doc) : o # toPascalCase(n)
        /\ \A split \in REQUEST_RESPONSE_SPLITS : o # split.requestSchema

ASSUME NamesAssumption == \A doc \in Published : NamesApart(doc)

\* COMPONENT_KEY_PATTERN, for the names of the instances.
ValidKey(name) ==
    name \notin {"Variable Creation Request", "Account Descriptor",
                 "Site/Filter"}

Renames(doc) == {n \in Names(doc) : ~ValidKey(n)}

\* A name that stays invalid, or that another component has already: throws.
RenameFails(doc) ==
    \E n \in Renames(doc) :
        \/ ~ValidKey(toPascalCase(n))
        \/ toPascalCase(n) \in Names(doc)
        \/ \E m \in Renames(doc) \ {n} : toPascalCase(m) = toPascalCase(n)

rewriteComponentRefs(doc) ==
    LET renamed(names) == {toPascalCase(n) : n \in names}
        repoint ==
            [node \in AllNodes(doc) |-> [node EXCEPT !.refs = renamed(@)]]
        repointed == walkAllSchemaNodes(doc, repoint)
        based(schema) == [schema EXCEPT !.bases = renamed(@)]
    IN  [repointed EXCEPT !.schemas =
            [n \in Names(doc) |-> based(repointed.schemas[n])]]

normalizeComponentKeys(doc) ==
    LET repointed == rewriteComponentRefs(doc)
        oldName(key) == CHOOSE n \in Names(doc) : toPascalCase(n) = key
    IN  [repointed EXCEPT !.schemas =
            [key \in {toPascalCase(n) : n \in Names(doc)} |->
                repointed.schemas[oldName(key)]]]

\* A correction's outcome: the document so far, and the anchors not found.
Corrected(doc, missing) == [doc |-> doc, missing |-> missing]

HasField(doc, name, field) ==
    /\ name \in Names(doc)
    /\ field \in DOMAIN doc.schemas[name].fields

\* The document with the nodes of new at their places, <<component, field>>.
WithFields(doc, new) ==
    [doc EXCEPT !.schemas =
        [n \in Names(doc) |->
            [doc.schemas[n] EXCEPT !.fields =
                [f \in DOMAIN doc.schemas[n].fields |->
                    IF <<n, f>> \in DOMAIN new THEN new[<<n, f>>]
                    ELSE doc.schemas[n].fields[f]]]]]

\* The type and the format are set and the enum goes; a reference or a
\* composition stays what it was, whatever is said beside it.
AsTimestamp(node) ==
    IF Composed(node) THEN node ELSE [node EXCEPT !.form = "epoch"]

patchTimestamps(doc) ==
    LET anchors == UNION {{<<n, f>> : f \in TIMESTAMP_FIELDS[n]} :
                            n \in DOMAIN TIMESTAMP_FIELDS}
        found == {a \in anchors : HasField(doc, a[1], a[2])}
        retyped == [a \in found |-> AsTimestamp(doc.schemas[a[1]].fields[a[2]])]
    IN  Corrected(WithFields(doc, retyped), anchors \ found)

patchAlertContext(doc) ==
    LET anchor == {<<"Alert", "alertContext">>}
    IN  IF HasField(doc, "Alert", "alertContext")
        THEN Corrected(WithFields(doc, [a \in anchor |-> Open]), {})
        ELSE Corrected(doc, anchor)

\* The components the old oneOf referred to.
oldContextNames(doc) ==
    IF /\ HasField(doc, "Alert", "alertContext")
       /\ doc.schemas["Alert"].fields["alertContext"].form = "oneOf"
    THEN doc.schemas["Alert"].fields["alertContext"].refs
    ELSE {}

\* One split: the request's references are pointed at a clone of the shared
\* component, which takes its name whatever had it.
Split(doc, split) ==
    LET shared == Ref(split.sharedSchema)
        clone == Ref(split.requestSchema)
        bodies == {o \in split.bodies :
                     o \in DOMAIN doc.ops /\ doc.ops[o].body = shared}
        fields == {a \in split.fields :
                     /\ HasField(doc, a[1], a[2])
                     /\ doc.schemas[a[1]].fields[a[2]] = shared}
        retargeted == WithFields(doc, [a \in fields |-> clone]).schemas
        added == [n \in {split.requestSchema} |->
                     retargeted[split.sharedSchema]]
        ops == [o \in DOMAIN doc.ops |->
                   IF o \in bodies THEN [doc.ops[o] EXCEPT !.body = clone]
                   ELSE doc.ops[o]]
    IN  IF split.sharedSchema \notin Names(doc)
        THEN Corrected(doc, {<<split.sharedSchema>>})
        ELSE Corrected(
               [schemas |-> Over(added, retargeted), ops |-> ops],
               {<<o>> : o \in split.bodies \ bodies}
                 \cup (split.fields \ fields))

patchRequestResponseSplits(doc) ==
    LET next(split, sofar) ==
            LET done == Split(sofar.doc, split)
            IN  Corrected(done.doc, sofar.missing \cup done.missing)
    IN  FoldSet(next, Corrected(doc, {}), REQUEST_RESPONSE_SPLITS)

computeReachableComponentNames(doc) ==
    Reached(doc, UNION {RefsIn(ParamNodes(op) \cup {op.body}
                                 \cup AnswerNodes(op)) :
                          op \in Range(doc.ops)})

\* Whatever an operation reaches is declared.
Declares(doc) == computeReachableComponentNames(doc) \subseteq Names(doc)

Typed(op) == DOMAIN op.answers \cap {"200", "204"} # {}

\* The distinct schemas of an operation's answers (responseSchema, deepEqual).
distinctSchemas(op) == AnswerNodes(op) \ {NoSchema}

\* An operation that documents no responses at all is passed over.
patchMissingSuccessResponses(doc) ==
    LET untyped == {o \in DOMAIN doc.ops :
                      doc.ops[o].responds /\ ~Typed(doc.ops[o])}
        inferred == {o \in untyped :
                       Cardinality(distinctSchemas(doc.ops[o])) = 1}
        void == {o \in untyped : distinctSchemas(doc.ops[o]) = {}}
        synthesized(op) ==
            [code \in {"200"} |-> CHOOSE s \in distinctSchemas(op) : TRUE]
    IN  Corrected(
          [doc EXCEPT !.ops =
              [o \in DOMAIN doc.ops |->
                  IF o \in inferred
                  THEN [doc.ops[o] EXCEPT !.answers =
                           Over(synthesized(doc.ops[o]), doc.ops[o].answers)]
                  ELSE doc.ops[o]]],
          {<<o>> : o \in (untyped \ inferred) \ (void \cap VOID_WRITE_OPERATIONS)})

\* (Mutant: the old contexts are deleted whoever still refers to them.)
pruneOrphanedContextSchemas_Reachable(doc, old) ==
    Corrected(
      [doc EXCEPT !.schemas =
          Restrict(@, Names(doc)
                        \ (Reached(doc, old)
                             \cap EXPECTED_ORPHANED_COMPONENTS))],
      {})

\* Deletes the components the old oneOf branched on, and their allOf bases,
\* where no operation reaches them any more and their end was foreseen.
pruneOrphanedContextSchemas(doc, old) ==
    LET bases == [n \in Names(doc) |-> doc.schemas[n].bases \cap Names(doc)]
        candidates == Followed(old \cap Names(doc), bases)
        orphaned == candidates \ computeReachableComponentNames(doc)
        pruned == orphaned \cap EXPECTED_ORPHANED_COMPONENTS
    IN  Corrected([doc EXCEPT !.schemas = Restrict(@, Names(doc) \ pruned)],
                  {<<n>> : n \in orphaned \ pruned})

fixMalformedNonStringConstraints(doc) ==
    LET fix == [node \in AllNodes(doc) |->
                   CASE node = PatternOnNumber -> Plain
                     [] node = DoubledEnum -> Enum
                     [] OTHER -> node]
    IN  walkAllSchemaNodes(doc, fix)

\* The whole step: what it would write, and what stops it from writing.
patchSpec(doc) ==
    LET old == oldContextNames(normalizeComponentKeys(doc))
        times == patchTimestamps(normalizeComponentKeys(doc))
        context == patchAlertContext(times.doc)
        splits == patchRequestResponseSplits(context.doc)
        typed == patchMissingSuccessResponses(splits.doc)
        pruned == pruneOrphanedContextSchemas(typed.doc, old)
    IN  Corrected(fixMalformedNonStringConstraints(pruned.doc),
                  UNION {times.missing, context.missing, splits.missing,
                         typed.missing, pruned.missing})

-----------------------------------------------------------------------------
(* orval (external)                                                        *)

IsEnum(node) == node \in {Enum, DoubledEnum}
EnumFields(fields) == {f \in DOMAIN fields : IsEnum(fields[f])}

\* A file: the types it imports and, for an enum, how its alias is written.
File(imports, alias) == [imports |-> imports, alias |-> alias]

ComponentTypes(doc) == {<<c>> : c \in Names(doc)}
ParamsTypes(doc) ==
    {<<o, "Params">> : o \in {p \in DOMAIN doc.ops :
                                DOMAIN doc.ops[p].params # {}}}
FieldsOf(doc, type) ==
    IF Len(type) = 1 THEN doc.schemas[type[1]].fields
    ELSE doc.ops[type[1]].params
EnumTypes(doc) ==
    UNION {{<<t[1], f>> : f \in EnumFields(FieldsOf(doc, t))} :
             t \in ComponentTypes(doc) \cup ParamsTypes(doc)}

\* One file for each component, parameter list and hoisted enum.
Generated(doc, alias) ==
    LET holders == ComponentTypes(doc) \cup ParamsTypes(doc)
        imports(t) ==
            {<<c>> : c \in RefsIn(Range(FieldsOf(doc, t)))
                             \cup (IF Len(t) = 1
                                   THEN doc.schemas[t[1]].bases ELSE {})}
              \cup {<<t[1], f>> : f \in EnumFields(FieldsOf(doc, t))}
    IN  [t \in holders \cup EnumTypes(doc) |->
            IF t \in holders THEN File(imports(t), "none") ELSE File({}, alias)]

\* It refuses component keys OpenAPI does not allow and references to nothing.
Generates(doc) ==
    /\ \A n \in Names(doc) : ValidKey(n) /\ Targets(doc, n) \subseteq Names(doc)
    /\ Declares(doc)

\* The export lines of index.ts, some written a second time with `.js`.
Export(type, js) == [type |-> type, js |-> js]
Exports(types, twice) ==
    LET lines(seq, js) == [i \in DOMAIN seq |-> Export(seq[i], js)]
    IN  lines(Listed(types), FALSE) \o lines(Listed(twice), TRUE)

-----------------------------------------------------------------------------
(* dedupe-generated-index.mjs                                              *)

normalizeExportLine(line) == [line EXCEPT !.js = FALSE]

\* Rewrites the index only when a line was dropped.
dedupeExportLines(lines) ==
    LET keep(kept, line) ==
            IF Contains(kept, normalizeExportLine(line)) THEN kept
            ELSE Append(kept, normalizeExportLine(line))
        deduped == FoldLeft(keep, <<>>, lines)
    IN  IF Len(deduped) < Len(lines) THEN deduped ELSE lines

-----------------------------------------------------------------------------
(* widen-response-enums.mjs                                                *)

componentHasEnum(doc, name) ==
    \E n \in Reached(doc, {name}) \cap Names(doc) :
        \E node \in Nodes(doc.schemas[n]) : IsEnum(node)

\* buildReachabilityMaps: parameters are not looked at.
requestReach(doc) ==
    UNION {Reached(doc, op.body.refs) : op \in Range(doc.ops)}
responseReach(doc) ==
    UNION {Reached(doc, RefsIn(AnswerNodes(op))) : op \in Range(doc.ops)}

computeRequestOnlyComponentNames(doc) ==
    {toPascalCase(n) : n \in requestReach(doc) \ responseReach(doc)}

verifyNoSharedEnumBearingSchemas(doc) ==
    \A n \in requestReach(doc) \cap responseReach(doc) :
        ~componentHasEnum(doc, n)

\* REQUEST_ROOT_SUFFIXES, for the type names of the instances.
EndsInRootSuffix(type) ==
    type[Len(type)] \in {"Params", "JobParameters"}

isRequestRootName(type, requestOnly) ==
    \/ EndsInRootSuffix(type)
    \/ Len(type) = 1 /\ type[1] \in requestOnly

computeRootExclusion(tree, requestOnly) ==
    {t \in DOMAIN tree : isRequestRootName(t, requestOnly)}

matchedRequestOnlyNames(tree, requestOnly) ==
    {n \in requestOnly : <<n>> \in DOMAIN tree}

\* (Mutant: the imports of a root are not followed.)
expandExcludedNames_RootsOnly(roots, tree) == roots

expandExcludedNames(roots, tree) ==
    Followed(roots, [t \in DOMAIN tree |-> tree[t].imports])

\* The aliases ENUM_ALIAS_RE matches: both the closed and the opened form.
Matched(tree, excluded) ==
    {t \in DOMAIN tree \ excluded : tree[t].alias \in {"closed", "opened"}}

applyWidening(tree, excluded) ==
    [t \in DOMAIN tree |->
        IF t \in Matched(tree, excluded)
        THEN [tree[t] EXCEPT !.alias = "opened"] ELSE tree[t]]

verifyWideningHappened(doc, tree, excluded) ==
    LET requestOnly == computeRequestOnlyComponentNames(doc)
    IN  /\ \/ Matched(tree, excluded) # {}
           \/ \A n \in responseReach(doc) : ~componentHasEnum(doc, n)
        /\ \/ requestOnly = {}
           \/ matchedRequestOnlyNames(tree, requestOnly) # {}

ExcludedIn(doc, tree) ==
    expandExcludedNames(
        computeRootExclusion(tree, computeRequestOnlyComponentNames(doc)),
        tree)

-----------------------------------------------------------------------------
(* The chain                                                               *)

VARIABLES
    published,  \* spec/openapi.json
    patched,    \* spec/openapi.patched.json, or NoDocument before the first
    tree,       \* src/generated/types: type -> file
    index,      \* the export lines of src/generated/types/index.ts
    at,         \* the step to come
    raw,        \* is this `generate:raw`: the generator alone
    toWrite,    \* the files the codemod has still to write
    outcome,    \* how the last chain ended
    refreshes   \* bound: refreshes so far

vars == <<published, patched, tree, index, at, raw, toWrite, outcome,
          refreshes>>

NoDocument == [schemas |-> <<>>, ops |-> <<>>]
Steps == {"idle", "patch", "clean", "emit", "dedupe", "widen", "write"}

Init ==
    /\ published \in Published /\ patched = NoDocument
    /\ tree = <<>> /\ index = <<>>
    /\ at = "idle" /\ raw = FALSE /\ toWrite = <<>>
    /\ outcome = "none" /\ refreshes = 0

\* (Mutant: a script that ends keeps what it had still to write.)
Stop_Remember(how) == at' = "idle" /\ outcome' = how /\ toWrite' = toWrite

Stop(how) == at' = "idle" /\ outcome' = how /\ toWrite' = <<>>

\* A new spec/openapi.json is saved.
Refresh ==
    /\ at = "idle" /\ refreshes < Refreshes
    /\ published' \in Published \ {published}
    /\ refreshes' = refreshes + 1 /\ outcome' = "none"
    /\ UNCHANGED <<patched, tree, index, at, raw, toWrite>>

Generate ==
    /\ at = "idle"
    /\ at' = "patch" /\ raw' = FALSE /\ outcome' = "none"
    /\ UNCHANGED <<published, patched, tree, index, toWrite, refreshes>>

\* `npm run generate:raw`, on the corrected document the last chain left.
GenerateRaw ==
    /\ at = "idle" /\ patched # NoDocument
    /\ at' = "clean" /\ raw' = TRUE /\ outcome' = "none"
    /\ UNCHANGED <<published, patched, tree, index, toWrite, refreshes>>

\* main of patch-spec.mjs: nothing is written when an anchor is missing.
PatchSpec ==
    /\ at = "patch"
    /\ LET fails == \/ RenameFails(published)
                    \/ patchSpec(published).missing # {}
       IN  \/ fails /\ Stop("failed") /\ UNCHANGED patched
           \/ /\ ~fails
              /\ patched' = patchSpec(published).doc /\ at' = "clean"
              /\ UNCHANGED <<outcome, toWrite>>
    /\ UNCHANGED <<published, tree, index, raw, refreshes>>

\* (Mutant: `clean: false`.)
Clean_Kept ==
    /\ at = "clean" /\ Generates(patched)
    /\ at' = "emit"
    /\ UNCHANGED <<published, patched, tree, index, raw, toWrite, outcome,
                   refreshes>>

\* `clean: true`: the output directory is emptied before it is written.
Clean ==
    /\ at = "clean" /\ Generates(patched)
    /\ tree' = <<>> /\ index' = <<>> /\ at' = "emit"
    /\ UNCHANGED <<published, patched, raw, toWrite, outcome, refreshes>>

Refuse ==
    /\ at = "clean" /\ ~Generates(patched)
    /\ Stop("failed")
    /\ UNCHANGED <<published, patched, tree, index, raw, refreshes>>

Emit ==
    /\ at = "emit"
    /\ \E form \in AliasForms, twice \in {{}, ExportedTwice} :
          LET new == Generated(patched, IF form THEN "closed" ELSE "unread")
          IN  /\ tree' = Over(new, tree)
              /\ index' = Exports(DOMAIN new, twice \cap DOMAIN new)
    /\ IF raw THEN Stop("raw") ELSE at' = "dedupe" /\ UNCHANGED <<toWrite,
                                                                  outcome>>
    /\ UNCHANGED <<published, patched, raw, refreshes>>

Dedupe ==
    /\ at = "dedupe"
    /\ index' = dedupeExportLines(index) /\ at' = "widen"
    /\ UNCHANGED <<published, patched, tree, raw, toWrite, outcome, refreshes>>

\* main of widen-response-enums.mjs, up to the first write.
Widen ==
    /\ at = "widen"
    /\ IF verifyNoSharedEnumBearingSchemas(patched)
       THEN /\ toWrite' =
                  LET new == applyWidening(tree, ExcludedIn(patched, tree))
                  IN  Listed({t \in DOMAIN tree : new[t] # tree[t]})
            /\ at' = "write" /\ UNCHANGED outcome
       ELSE Stop("failed")
    /\ UNCHANGED <<published, patched, tree, index, raw, refreshes>>

WriteFile ==
    /\ at = "write" /\ toWrite # <<>>
    /\ tree' = [tree EXCEPT ![Head(toWrite)].alias = "opened"]
    /\ toWrite' = Tail(toWrite)
    /\ UNCHANGED <<published, patched, index, at, raw, outcome, refreshes>>

\* The post-conditions are looked at when every file is written.
Verify ==
    /\ at = "write" /\ toWrite = <<>>
    /\ Stop(IF verifyWideningHappened(patched, tree, ExcludedIn(patched, tree))
            THEN "done" ELSE "failed")
    /\ UNCHANGED <<published, patched, tree, index, raw, refreshes>>

\* The process is killed: what is on disk stays there.
Interrupt ==
    /\ at # "idle" /\ Stop("interrupted")
    /\ UNCHANGED <<published, patched, tree, index, raw, refreshes>>

Next ==
    \/ Refresh \/ Generate \/ GenerateRaw \/ PatchSpec \/ Clean \/ Refuse
    \/ Emit \/ Dedupe \/ Widen \/ WriteFile \/ Verify \/ Interrupt

Spec == Init /\ [][Next]_vars

-----------------------------------------------------------------------------
(* What the chain promises                                                 *)

\* Past the correction of a `generate`: patched is published's.
Corrects == ~raw /\ (at \notin {"idle", "patch"} \/ outcome = "done")

\* The component a published name has become.
Kept(name) ==
    toPascalCase(name) \in Names(patched)
      \/ name \in EXPECTED_ORPHANED_COMPONENTS

\* An operation that documents responses is typed by its own 200/204 or by
\* what all of its published errors carry, and only the reviewed writes go
\* without. One that documents none is left so.
WellAnswered(o) ==
    LET before == published.ops[o].answers
        after == patched.ops[o].answers
    IN  IF \/ ~published.ops[o].responds
           \/ DOMAIN before \cap {"200", "204"} # {}
        THEN DOMAIN after = DOMAIN before
        ELSE \/ /\ "200" \in DOMAIN after
                /\ \A code \in DOMAIN before :
                      after[code] \in {after["200"], NoSchema}
             \/ "200" \notin DOMAIN after /\ o \in VOID_WRITE_OPERATIONS

TimestampForm(doc, n, f) == doc.schemas[n].fields[f].form

\* A timestamp is a number, or the reference or composition it was published
\* as, which the correction does not undo.
WellTimed(n, f) ==
    IF Composed(published.schemas[n].fields[f])
    THEN TimestampForm(patched, n, f) = TimestampForm(published, n, f)
    ELSE TimestampForm(patched, n, f) = "epoch"

\* What patch-spec.mjs corrects is in the document the types are generated
\* from, for every document it lets through: what an operation reaches is
\* declared if it was (nothing still in use is pruned, no reference is left
\* behind by a new name), a component is lost only when its end was reviewed,
\* an operation that documents responses has its success typed or is known to
\* be void, a timestamp spelled out in its component is a number, the alert
\* context is open, and no malformed node is left for the generator. What it
\* lets through uncorrected, an operation without `responses` and a timestamp
\* by reference, is what WellAnswered and WellTimed say of it.
PatchedWhole ==
    Corrects =>
        /\ Declares(published) => Declares(patched)
        /\ \A n \in Names(published) : Kept(n)
        /\ \A o \in DOMAIN published.ops : WellAnswered(o)
        /\ \A n \in DOMAIN TIMESTAMP_FIELDS : \A f \in TIMESTAMP_FIELDS[n] :
              WellTimed(n, f)
        /\ patched.schemas["Alert"].fields["alertContext"] = Open
        /\ fixMalformedNonStringConstraints(patched) = patched

\* The components a parameter refers to, and those under a type whose name
\* ends like a request's: the codemod takes both for requests.
TakenForRequests ==
    Reached(patched,
            (UNION {RefsIn(ParamNodes(op)) : op \in Range(patched.ops)})
              \cup {n \in Names(patched) : EndsInRootSuffix(<<n>>)})

\* A chain that reports success left every enum on its side: what a client
\* sends (a body's enum at any depth, a parameter's) is a closed union,
\* whichever way the generator writes one, and what the server answers is
\* open to values nobody has seen. R5, R6 of widen-response-enums.mjs;
\* TakenForRequests are the answers it leaves closed without a word, and so
\* is an enum whose own name ends like a request's.
EnumsOnTheirSide ==
    outcome = "done" =>
        \A t \in EnumTypes(patched) :
            /\ \/ t[1] \in requestReach(patched)
               \/ t[1] \in DOMAIN patched.ops
               => tree[t].alias # "opened"
            /\ /\ t[1] \in responseReach(patched) \ TakenForRequests
               /\ ~EndsInRootSuffix(t)
               => tree[t].alias = "opened"

\* The document is this one, and there is a type for each of its components,
\* parameter lists and enums and no other, of an earlier document or otherwise.
OnlyItsTypes ==
    /\ patched = patchSpec(published).doc
    /\ DOMAIN tree = ComponentTypes(patched) \cup ParamsTypes(patched)
                       \cup EnumTypes(patched)

\* What is on disk after a success comes from this document and nothing else,
\* whatever was refreshed, generated or interrupted before: no type of an
\* earlier document is left, no import leads nowhere, and the index exports
\* every type once (test R15 compares the tree with the committed one).
TreeIsOfThisDocument ==
    outcome = "done" =>
        /\ OnlyItsTypes
        /\ \A t \in DOMAIN tree : tree[t].imports \subseteq DOMAIN tree
        /\ {index[i].type : i \in DOMAIN index} = DOMAIN tree
        /\ Len(index) = Cardinality(DOMAIN tree)

TypeOK ==
    /\ published \in Published
    /\ at \in Steps /\ raw \in BOOLEAN
    /\ outcome \in {"none", "raw", "done", "failed", "interrupted"}
    /\ \A t \in DOMAIN tree :
          tree[t].alias \in {"none", "closed", "opened", "unread"}
    /\ Range(toWrite) \subseteq DOMAIN tree /\ IsInjective(toWrite)
    /\ (at # "write" => toWrite = <<>>)
    /\ refreshes \in 0 .. Refreshes
=============================================================================
