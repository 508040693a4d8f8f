--------------------------- MODULE MCSpecPipeline ---------------------------
(***************************************************************************)
(* Small instances of SpecPipeline: a document with one of each defect of  *)
(* spec/openapi.json, and what a refresh may change in it. A behaviour may *)
(* start from one edit and be refreshed to another.                        *)
(***************************************************************************)
EXTENDS SpecPipeline

Schema(fields) == [fields |-> fields, bases |-> {}]
Operation(params, body, answers) ==
    [params |-> params, body |-> body, answers |-> answers, responds |-> TRUE]
Read(answers) == Operation(<<>>, NoSchema, answers)
Write(body, answers) == Operation(<<>>, body, answers)
\* An operation with no `responses` at all.
Silent(body) == [Write(body, <<>>) EXCEPT !.responds = FALSE]
All(fields, node) == [f \in fields |-> node]
Errors(node) == ("400" :> node) @@ ("404" :> node)

Contexts == {"PingContext", "StatusContext"}
SiteProxy == "POST /v2/site/{siteUid}/settings/proxy"
ReadSite == "GET /v2/site/{siteUid}"
ReadAlert == "GET /v2/alert/{alertUid}"
Activities == "GET /v2/activity-logs"

BaseDocument ==
    [schemas |->
        [n \in Contexts |-> [fields |-> <<>>, bases |-> {"AlertContext"}]]
          @@ ("AlertContext" :> Schema(<<>>))
          @@ ("Device" :>
                Schema(All(TIMESTAMP_FIELDS["Device"], Date)
                         @@ ("deviceClass" :> Enum)))
          @@ ("AuthUser" :> Schema(All(TIMESTAMP_FIELDS["AuthUser"], Date)))
          @@ ("Alert" :>
                Schema(All(TIMESTAMP_FIELDS["Alert"], Date)
                         @@ ("alertContext" :> OneOf(Contexts))))
          @@ ("ProxySettings" :> Schema("type" :> Enum))
          @@ ("CreateSiteRequest" :>
                Schema("proxySettings" :> Ref("ProxySettings")))
          @@ ("Site" :> Schema("proxySettings" :> Ref("ProxySettings")))
          @@ ("Variable Creation Request" :> Schema("value" :> Plain))
          @@ ("ActivityLog" :> Schema("date" :> PatternOnNumber)),
     ops |->
        ("GET /v2/device/{deviceUid}" :> Read(Errors(Ref("Device"))))
          @@ ("GET /v2/user" :> Read("200" :> Ref("AuthUser")))
          @@ (ReadAlert :> Read(Errors(Ref("Alert"))))
          @@ (ReadSite :> Read("200" :> Ref("Site")))
          @@ ("PUT /v2/site" :>
                Write(Ref("CreateSiteRequest"), "200" :> Ref("Site")))
          @@ (SiteProxy :>
                Write(Ref("ProxySettings"), Errors(Ref("Site"))))
          @@ ("PUT /v2/account/variable" :>
                Write(Ref("Variable Creation Request"), Errors(NoSchema)))
          @@ (Activities :>
                Operation(("order" :> Enum) @@ ("entities" :> DoubledEnum),
                          NoSchema, "200" :> Ref("ActivityLog")))]

With(doc, name, schema) == [doc EXCEPT !.schemas = (name :> schema) @@ @]
Answering(doc, op, answers) == [doc EXCEPT !.ops[op].answers = answers]
Without(doc, name, field) ==
    [doc EXCEPT !.schemas[name].fields =
        Restrict(@, DOMAIN @ \ {field})]
Retyped(doc, name, field, node) ==
    [doc EXCEPT !.schemas[name].fields = (field :> node) @@ @]

Extend(doc, op, operation) == [doc EXCEPT !.ops = (op :> operation) @@ @]

\* What the vendor may change: anchors that move, new contexts, components
\* used in a new place, answers documented in another way, names.
Edits(doc) ==
    {doc,
     Without(doc, "Device", "lastSeen"),
     Without(doc, "Alert", "alertContext"),
     Retyped(doc, "Alert", "alertContext", Plain),
     Retyped(With(doc, "Instant", Schema(<<>>)),
             "Device", "lastSeen", Ref("Instant")),
     Retyped(doc, "AuthUser", "created", Enum),
     Extend(doc, "POST /v2/filter",
            Silent(Ref("Variable Creation Request"))),
     Extend(doc, "POST /v2/filter", Write(Ref("Site"), <<>>)),
     Retyped(With(doc, "RouterContext", Schema(<<>>)),
             "Alert", "alertContext", OneOf(Contexts \cup {"RouterContext"})),
     Answering(doc, ReadSite, ("200" :> Ref("Site"))
                                @@ ("404" :> Ref("PingContext"))),
     With(doc, "Report", Schema("context" :> Ref("StatusContext"))),
     Retyped(doc, "Site", "ping", Ref("PingContext")),
     Retyped(doc, "Site", "owner", Ref("Owner")),
     Retyped(doc, "CreateSiteRequest", "proxySettings", Plain),
     Extend(doc, "PUT /v2/filter",
            Write(Ref("ProxySettings"), "200" :> Ref("Site"))),
     Extend(doc, "PUT /v2/filter", Write(Ref("Site"), "204" :> NoSchema)),
     Extend(doc, "PUT /v2/device",
            Write(Ref("Device"), "204" :> NoSchema)),
     Answering(doc, ReadAlert,
               ("400" :> Ref("Alert")) @@ ("403" :> Ref("Site"))),
     Answering(doc, ReadAlert, Errors(NoSchema)),
     Answering(doc, "PUT /v2/account/variable", Errors(Ref("Site"))),
     With(doc, "Site/Filter", Schema(<<>>)),
     With(doc, "VariableCreationRequest", Schema(<<>>)),
     With(doc, "ProxySettingsRequest", Schema("other" :> Plain)),
     Extend(doc, "GET /v2/devices",
            Operation("like" :> Ref("Device"), NoSchema,
                      "200" :> Ref("Device"))),
     Extend(With(doc, "JobParameters", Schema("kind" :> Enum)), "GET /v2/job",
            Read("200" :> Ref("JobParameters"))),
     Extend(With(With(doc, "JobRequest", Schema("step" :> Ref("JobStep"))),
                 "JobStep", Schema("on" :> Enum)),
            "PUT /v2/job", Write(Ref("JobRequest"), "204" :> NoSchema))}

MCPublished == Edits(BaseDocument)
MCTwice == {<<"Site">>, <<"ActivityLog">>}
=============================================================================
