---------------------------- MODULE Operations ------------------------------
(***************************************************************************)
(* What the methods of the client's namespaces send and what they make of  *)
(* the answer (src/client/resources, src/schema-overrides): for each, the  *)
(* request, the schema of its body, the schema its answer is validated     *)
(* against and the write budget it draws on; beside it the server's side,  *)
(* the routes it documents (spec/openapi.json) with what they answer, and  *)
(* the table that says which route each method is for (operation-map.ts).  *)
(* A path has {} for each parameter, and the client's paths are written    *)
(* without the "/api" all of them start with.                              *)
(***************************************************************************)
EXTENDS Schemas, FiniteSets, Naturals

-----------------------------------------------------------------------------
(* The schemas the client validates answers against: the generated ones,   *)
(* corrected, and those written out by hand because the generator leaves   *)
(* the items of a page without a name.                                     *)

\* A udf value may be anything JSON has; the generated schema takes text.
\* (Mutant: the generated schema as it is.)
deviceResponseSchema_Generated == GetByUidResponse
deviceResponseSchema ==
    [GetByUidResponse EXCEPT !.entity.udf = "any"]

\* An alert's context keeps whatever keys it has.
alertResponseSchema ==
    [GetAlertResponse EXCEPT !.entity.context = "open"]

\* The dates of a filter, by hand, take no offset from UTC.
filterSchema ==
    Object([Entity({"id", "name", "description", "type", "dateCreate",
                    "lastUpdated"}, {"dates", "enums"})
              EXCEPT !.dates = "utc"])

variableSchema == Object(Entity({"id", "name", "value", "masked"}, {}))

componentSchema ==
    Object(Entity({"id", "credentialsRequired", "uid", "name", "description",
                   "categoryCode", "variables"}, {}))

dnetSiteMappingSchema ==
    Object(Entity({"id", "uid", "accountUid", "name", "description",
                   "dattoNetworkingNetworkIds", "portalUrl"}, {}))

deviceNetworkInterfaceSchema ==
    Object(Entity({"id", "uid", "siteId", "siteUid", "siteName",
                   "deviceType", "hostname", "intIpAddress", "extIpAddress",
                   "nics"}, {}))

softwareSchema == Object(Entity({"name", "version"}, {}))

jobComponentSchema == Object(Entity({"uid", "name", "variables"}, {}))

authUserSchema ==
    Object(Entity({"lastName", "firstName", "username", "email", "telephone",
                   "status", "created", "lastAccess", "disabled"}, {}))

activityLogSchema ==
    Object(Entity({"id", "entity", "category", "action", "date", "site",
                   "deviceId", "hostname", "user", "details", "hasStdOut",
                   "hasStdErr"}, {"enums"}))

voidResponseSchema == Unknown

-----------------------------------------------------------------------------
(* The schemas of the write bodies.                                        *)

requireSomeField(schema) == [schema EXCEPT !.some = TRUE]

RequireName(schema) ==
    [schema EXCEPT !.required = @ \cup {"name"}, !.optional = @ \ {"name"}]

siteCreateBodySchema == CreateBody
siteUpdateBodySchema == UpdateBody
deviceJobCreateBodySchema == CreateQuickJobBody
udfWriteBodySchema == requireSomeField(SetUdfFieldsBody)
warrantyWriteBodySchema ==
    [SetWarrantyDataBody EXCEPT !.required = {"warrantyDate"},
                                !.optional = {}, !.nulls = {"warrantyDate"}]
createSiteVariableWriteBodySchema == RequireName(CreateSiteVariableBody)
updateSiteVariableWriteBodySchema ==
    requireSomeField(UpdateSiteVariableBody)
createAccountVariableWriteBodySchema == RequireName(CreateAccountVariableBody)
updateAccountVariableWriteBodySchema ==
    requireSomeField(UpdateAccountVariableBody)
updateProxyWriteBodySchema == requireSomeField(UpdateProxyBody)

\* A body as the application passes it: the fields it gives, those of them
\* that are null, and whether it has a key the schema does not know.
validateRequest(body, schema) ==
    /\ schema.required \subseteq body.given
    /\ body.nulls \subseteq schema.nulls
    /\ ~body.stray
    /\ schema.some => body.given # {}

\* The bodies the application is taken to pass: nothing, what is required,
\* everything, one field null, one stray key.
Bodies(schema) ==
    LET whole == schema.required \cup schema.optional
        Body(given) == [given |-> given, nulls |-> {}, stray |-> FALSE]
    IN  {Body({}), Body(schema.required), Body(whole)}
          \cup {[Body(whole) EXCEPT !.nulls = {f}] : f \in whole}
          \cup {[Body(whole) EXCEPT !.stray = TRUE]}

-----------------------------------------------------------------------------
(* The primitives: what a call of one sends, and how it reads the answer.  *)

\* A read draws on no operation's budget.
NoKey == "none"

Primitive(verb, path, body, reads, response, opKey) ==
    [verb |-> verb, path |-> path, body |-> body, reads |-> reads,
     response |-> response, opKey |-> opKey]

\* A call without a body gives none, and none is validated.
NoBody == StrictObject({}, {})

httpGet(path, response) ==
    Primitive("get", path, NoBody, "object", response, NoKey)
httpGetArray(path, item) ==
    Primitive("get", path, NoBody, "items", ArrayOf(item), NoKey)
paginate(path, key, item) ==
    Primitive("get", path, NoBody, "pages", PageOf(key, item.entity), NoKey)
httpPost(path, body, response, opKey) ==
    Primitive("post", path, body, "object", response, opKey)
httpPut(path, body, response, opKey) ==
    Primitive("put", path, body, "object", response, opKey)
httpDelete(path, opKey) ==
    Primitive("delete", path, NoBody, "nothing", Void, opKey)

-----------------------------------------------------------------------------
(* The namespaces: the methods and what each calls.                        *)

Method(ns, method, primitive) ==
    [ns |-> ns, method |-> method, calls |-> primitive]

AccountResource ==
    LET M(method, primitive) == Method("account", method, primitive) IN
    {M("get", httpGet("/v2/account", GetUserAccountResponse)),
     M("devices", paginate("/v2/account/devices", "devices",
                           deviceResponseSchema)),
     M("variables", paginate("/v2/account/variables", "variables",
                             variableSchema)),
     M("createVariable", httpPut("/v2/account/variable",
                                 createAccountVariableWriteBodySchema,
                                 voidResponseSchema, "account-variable-set")),
     M("updateVariable", httpPost("/v2/account/variable/{}",
                                  updateAccountVariableWriteBodySchema,
                                  voidResponseSchema, "account-variable-set")),
     M("deleteVariable", httpDelete("/v2/account/variable/{}",
                                    "account-variable-set")),
     M("components", paginate("/v2/account/components", "components",
                              componentSchema)),
     M("dnetSiteMappings", paginate("/v2/account/dnet-site-mappings",
                                    "dnetSiteMappings",
                                    dnetSiteMappingSchema))}

ActivityLogResource ==
    {Method("activityLogs", "list", paginate("/v2/activity-logs",
                                             "activities", activityLogSchema))}

AlertResource ==
    LET M(method, primitive) == Method("alerts", method, primitive)
        List(method, path) ==
            M(method, paginate(path, "alerts", alertResponseSchema))
        Set(method, path, opKey) ==
            M(method, httpPost(path, NoBody, voidResponseSchema, opKey))
    IN
    {M("get", httpGet("/v2/alert/{}", alertResponseSchema)),
     Set("resolve", "/v2/alert/{}/resolve", "alert-resolve"),
     Set("mute", "/v2/alert/{}/mute", "alert-mute"),
     Set("unmute", "/v2/alert/{}/unmute", "alert-unmute"),
     List("open", "/v2/account/alerts/open"),
     List("resolved", "/v2/account/alerts/resolved"),
     List("openForSite", "/v2/site/{}/alerts/open"),
     List("resolvedForSite", "/v2/site/{}/alerts/resolved"),
     List("openForDevice", "/v2/device/{}/alerts/open"),
     List("resolvedForDevice", "/v2/device/{}/alerts/resolved")}

AuditResource ==
    LET M(method, primitive) == Method("audit", method, primitive) IN
    {M("getPrinter", httpGet("/v2/audit/printer/{}",
                             GetPrinterAuditResponse)),
     M("getEsxiHost", httpGet("/v2/audit/esxihost/{}",
                              GetEsxiHostAuditResponse)),
     M("getDevice", httpGet("/v2/audit/device/{}", GetDeviceAuditResponse)),
     M("getDeviceSoftware", paginate("/v2/audit/device/{}/software",
                                     "software", softwareSchema)),
     M("getDeviceByMacAddress",
       httpGetArray("/v2/audit/device/macAddress/{}",
                    GetDeviceAuditByMacAddressResponseItem))}

DeviceResource ==
    LET M(method, primitive) == Method("devices", method, primitive) IN
    {M("get", httpGet("/v2/device/{}", deviceResponseSchema)),
     M("getById", httpGet("/v2/device/id/{}", deviceResponseSchema)),
     M("getByMacAddress", httpGetArray("/v2/device/macAddress/{}",
                                       deviceResponseSchema)),
     M("move", httpPut("/v2/device/{}/site/{}", NoBody, voidResponseSchema,
                       "device-move")),
     M("createJob", httpPut("/v2/device/{}/quickjob",
                            deviceJobCreateBodySchema,
                            CreateQuickJobResponse, "device-job-create")),
     M("setUdf", httpPost("/v2/device/{}/udf", udfWriteBodySchema,
                          voidResponseSchema, "device-udf-set")),
     M("setWarranty", httpPost("/v2/device/{}/warranty",
                               warrantyWriteBodySchema, voidResponseSchema,
                               "device-warranty-set"))}

FilterResource ==
    LET List(method, path) ==
            Method("filters", method, paginate(path, "filters", filterSchema))
    IN
    {List("defaults", "/v2/filter/default-filters"),
     List("custom", "/v2/filter/custom-filters")}

JobResource ==
    LET M(method, primitive) == Method("jobs", method, primitive) IN
    {M("get", httpGet("/v2/job/{}", Get1Response)),
     M("getResults", httpGet("/v2/job/{}/results/{}", GetJobResultsResponse)),
     M("getStdOut", httpGetArray("/v2/job/{}/results/{}/stdout",
                                 GetStdOutResponseItem)),
     M("getStdErr", httpGetArray("/v2/job/{}/results/{}/stderr",
                                 GetStdErrResponseItem)),
     M("getComponents", paginate("/v2/job/{}/components", "jobComponents",
                                 jobComponentSchema))}

SiteResource ==
    LET M(method, primitive) == Method("sites", method, primitive) IN
    {M("list", paginate("/v2/account/sites", "sites", GetSiteResponse)),
     M("get", httpGet("/v2/site/{}", GetSiteResponse)),
     M("create", httpPut("/v2/site", siteCreateBodySchema, GetSiteResponse,
                         "site-create")),
     M("update", httpPost("/v2/site/{}", siteUpdateBodySchema,
                          GetSiteResponse, "site-update")),
     M("devices", paginate("/v2/site/{}/devices", "devices",
                           deviceResponseSchema)),
     M("devicesWithNetworkInterface",
       paginate("/v2/site/{}/devices/network-interface", "devices",
                deviceNetworkInterfaceSchema)),
     M("variables", paginate("/v2/site/{}/variables", "variables",
                             variableSchema)),
     M("createVariable", httpPut("/v2/site/{}/variable",
                                 createSiteVariableWriteBodySchema,
                                 voidResponseSchema, "site-variable-set")),
     M("updateVariable", httpPost("/v2/site/{}/variable/{}",
                                  updateSiteVariableWriteBodySchema,
                                  voidResponseSchema, "site-variable-set")),
     M("deleteVariable", httpDelete("/v2/site/{}/variable/{}",
                                    "site-variable-set")),
     M("settings", httpGet("/v2/site/{}/settings", GetSiteSettingsResponse)),
     M("deviceFilters", paginate("/v2/site/{}/filters", "filters",
                                 filterSchema)),
     M("updateProxy", httpPost("/v2/site/{}/settings/proxy",
                               updateProxyWriteBodySchema,
                               UpdateProxyResponse, "device-proxy-set")),
     M("deleteProxy", httpDelete("/v2/site/{}/settings/proxy",
                                 "device-proxy-set"))}

SystemResource ==
    LET M(method, primitive) == Method("system", method, primitive) IN
    {M("status", httpGet("/v2/system/status", GetStatusResponse)),
     M("requestRate", httpGet("/v2/system/request_rate", GetResponse)),
     M("paginationConfiguration", httpGet("/v2/system/pagination",
                                          GetPaginationConfigurationsResponse))}

UserResource ==
    LET M(method, primitive) == Method("users", method, primitive) IN
    {M("list", paginate("/v2/account/users", "users", authUserSchema)),
     M("resetKeys", httpPost("/v2/user/resetApiKeys", NoBody,
                             ResetApiKeysResponse, "user-reset-keys"))}

Methods ==
    UNION {AccountResource, ActivityLogResource, AlertResource,
           AuditResource, DeviceResource, FilterResource, JobResource,
           SiteResource, SystemResource, UserResource}

\* The keys of the write budgets.
WRITE_LIMITS ==
    {"device-udf-set", "site-create", "site-update", "site-variable-set",
     "account-variable-set", "alert-resolve", "alert-mute", "alert-unmute",
     "device-move", "device-job-create", "device-warranty-set",
     "device-proxy-set", "user-reset-keys"}

-----------------------------------------------------------------------------
(* The table of operations: the route each method is for.                  *)

Entry(verb, path, ns, method) ==
    [verb |-> verb, path |-> path, ns |-> ns, method |-> method]

AccountOperations ==
    {Entry("get", "/v2/account", "account", "get"),
     Entry("get", "/v2/account/alerts/open", "alerts", "open"),
     Entry("get", "/v2/account/alerts/resolved", "alerts", "resolved"),
     Entry("get", "/v2/account/components", "account", "components"),
     Entry("get", "/v2/account/devices", "account", "devices"),
     Entry("get", "/v2/account/dnet-site-mappings", "account",
           "dnetSiteMappings"),
     Entry("get", "/v2/account/sites", "sites", "list"),
     Entry("get", "/v2/account/users", "users", "list"),
     Entry("get", "/v2/account/variables", "account", "variables"),
     Entry("post", "/v2/account/variable/{}", "account", "updateVariable"),
     Entry("put", "/v2/account/variable", "account", "createVariable"),
     Entry("delete", "/v2/account/variable/{}", "account", "deleteVariable")}

ActivityLogOperations ==
    {Entry("get", "/v2/activity-logs", "activityLogs", "list")}

AlertOperations ==
    {Entry("get", "/v2/alert/{}", "alerts", "get"),
     Entry("post", "/v2/alert/{}/mute", "alerts", "mute"),
     Entry("post", "/v2/alert/{}/resolve", "alerts", "resolve"),
     Entry("post", "/v2/alert/{}/unmute", "alerts", "unmute")}

AuditOperations ==
    {Entry("get", "/v2/audit/device/macAddress/{}", "audit",
           "getDeviceByMacAddress"),
     Entry("get", "/v2/audit/device/{}", "audit", "getDevice"),
     Entry("get", "/v2/audit/device/{}/software", "audit",
           "getDeviceSoftware"),
     Entry("get", "/v2/audit/esxihost/{}", "audit", "getEsxiHost"),
     Entry("get", "/v2/audit/printer/{}", "audit", "getPrinter")}

DeviceOperations ==
    {Entry("get", "/v2/device/id/{}", "devices", "getById"),
     Entry("get", "/v2/device/macAddress/{}", "devices", "getByMacAddress"),
     Entry("get", "/v2/device/{}", "devices", "get"),
     Entry("get", "/v2/device/{}/alerts/open", "alerts", "openForDevice"),
     Entry("get", "/v2/device/{}/alerts/resolved", "alerts",
           "resolvedForDevice"),
     Entry("post", "/v2/device/{}/udf", "devices", "setUdf"),
     Entry("post", "/v2/device/{}/warranty", "devices", "setWarranty"),
     Entry("put", "/v2/device/{}/quickjob", "devices", "createJob"),
     Entry("put", "/v2/device/{}/site/{}", "devices", "move")}

FilterOperations ==
    {Entry("get", "/v2/filter/custom-filters", "filters", "custom"),
     Entry("get", "/v2/filter/default-filters", "filters", "defaults")}

JobOperations ==
    {Entry("get", "/v2/job/{}", "jobs", "get"),
     Entry("get", "/v2/job/{}/components", "jobs", "getComponents"),
     Entry("get", "/v2/job/{}/results/{}", "jobs", "getResults"),
     Entry("get", "/v2/job/{}/results/{}/stderr", "jobs", "getStdErr"),
     Entry("get", "/v2/job/{}/results/{}/stdout", "jobs", "getStdOut")}

SiteOperations ==
    {Entry("delete", "/v2/site/{}/settings/proxy", "sites", "deleteProxy"),
     Entry("delete", "/v2/site/{}/variable/{}", "sites", "deleteVariable"),
     Entry("get", "/v2/site/{}", "sites", "get"),
     Entry("get", "/v2/site/{}/alerts/open", "alerts", "openForSite"),
     Entry("get", "/v2/site/{}/alerts/resolved", "alerts", "resolvedForSite"),
     Entry("get", "/v2/site/{}/devices", "sites", "devices"),
     Entry("get", "/v2/site/{}/devices/network-interface", "sites",
           "devicesWithNetworkInterface"),
     Entry("get", "/v2/site/{}/filters", "sites", "deviceFilters"),
     Entry("get", "/v2/site/{}/settings", "sites", "settings"),
     Entry("get", "/v2/site/{}/variables", "sites", "variables"),
     Entry("post", "/v2/site/{}", "sites", "update"),
     Entry("post", "/v2/site/{}/settings/proxy", "sites", "updateProxy"),
     Entry("post", "/v2/site/{}/variable/{}", "sites", "updateVariable"),
     Entry("put", "/v2/site", "sites", "create"),
     Entry("put", "/v2/site/{}/variable", "sites", "createVariable")}

SystemOperations ==
    {Entry("get", "/v2/system/pagination", "system",
           "paginationConfiguration"),
     Entry("get", "/v2/system/request_rate", "system", "requestRate"),
     Entry("get", "/v2/system/status", "system", "status")}

UserOperations ==
    {Entry("post", "/v2/user/resetApiKeys", "users", "resetKeys")}

OPERATION_MAP ==
    UNION {AccountOperations, ActivityLogOperations, AlertOperations,
           AuditOperations, DeviceOperations, FilterOperations,
           JobOperations, SiteOperations, SystemOperations, UserOperations}

-----------------------------------------------------------------------------
(* The server: what each of its routes is documented to answer.            *)

Documented ==
    {<<"put", "/v2/site", CreateResponse>>,
     <<"put", "/v2/site/{}/variable", CreateSiteVariableResponse>>,
     <<"put", "/v2/device/{}/site/{}", MoveDeviceResponse>>,
     <<"put", "/v2/device/{}/quickjob", CreateQuickJobResponse>>,
     <<"put", "/v2/account/variable", CreateAccountVariableResponse>>,
     <<"post", "/v2/user/resetApiKeys", ResetApiKeysResponse>>,
     <<"get", "/v2/site/{}", GetSiteResponse>>,
     <<"post", "/v2/site/{}", UpdateResponse>>,
     <<"post", "/v2/site/{}/variable/{}", UpdateSiteVariableResponse>>,
     <<"delete", "/v2/site/{}/variable/{}", DeleteSiteVariableResponse>>,
     <<"post", "/v2/site/{}/settings/proxy", UpdateProxyResponse>>,
     <<"delete", "/v2/site/{}/settings/proxy", DeleteProxyResponse>>,
     <<"post", "/v2/device/{}/warranty", SetWarrantyDataResponse>>,
     <<"post", "/v2/device/{}/udf", SetUdfFieldsResponse>>,
     <<"post", "/v2/alert/{}/unmute", UnmuteAlertResponse>>,
     <<"post", "/v2/alert/{}/resolve", ResolveAlertResponse>>,
     <<"post", "/v2/alert/{}/mute", MuteAlertResponse>>,
     <<"post", "/v2/account/variable/{}", UpdateAccountVariableResponse>>,
     <<"delete", "/v2/account/variable/{}", DeleteAccountVariableResponse>>,
     <<"get", "/v2/system/status", GetStatusResponse>>,
     <<"get", "/v2/system/request_rate", GetResponse>>,
     <<"get", "/v2/system/pagination", GetPaginationConfigurationsResponse>>,
     <<"get", "/v2/site/{}/variables", GetSiteVariablesResponse>>,
     <<"get", "/v2/site/{}/settings", GetSiteSettingsResponse>>,
     <<"get", "/v2/site/{}/filters", GetSiteDeviceFiltersResponse>>,
     <<"get", "/v2/site/{}/devices", GetSiteDevicesResponse>>,
     <<"get", "/v2/site/{}/devices/network-interface",
       GetSiteDevicesWithNetworkInterfaceResponse>>,
     <<"get", "/v2/site/{}/alerts/resolved", GetSiteResolvedAlertsResponse>>,
     <<"get", "/v2/site/{}/alerts/open", GetSiteOpenAlertsResponse>>,
     <<"get", "/v2/job/{}", Get1Response>>,
     <<"get", "/v2/job/{}/results/{}", GetJobResultsResponse>>,
     <<"get", "/v2/job/{}/results/{}/stdout", GetStdOutResponse>>,
     <<"get", "/v2/job/{}/results/{}/stderr", GetStdErrResponse>>,
     <<"get", "/v2/job/{}/components", GetJobComponentsResponse>>,
     <<"get", "/v2/filter/default-filters", GetDefaultsFiltersResponse>>,
     <<"get", "/v2/filter/custom-filters", GetCustomFiltersResponse>>,
     <<"get", "/v2/device/{}", GetByUidResponse>>,
     <<"get", "/v2/device/{}/alerts/resolved",
       GetDeviceResolvedAlertsResponse>>,
     <<"get", "/v2/device/{}/alerts/open", GetDeviceOpenAlertsResponse>>,
     <<"get", "/v2/device/macAddress/{}", GetByMacAddressResponse>>,
     <<"get", "/v2/device/id/{}", GetByIdResponse>>,
     <<"get", "/v2/audit/printer/{}", GetPrinterAuditResponse>>,
     <<"get", "/v2/audit/esxihost/{}", GetEsxiHostAuditResponse>>,
     <<"get", "/v2/audit/device/{}", GetDeviceAuditResponse>>,
     <<"get", "/v2/audit/device/{}/software", GetDeviceAuditSoftwareResponse>>,
     <<"get", "/v2/audit/device/macAddress/{}",
       GetDeviceAuditByMacAddressResponse>>,
     <<"get", "/v2/alert/{}", GetAlertResponse>>,
     <<"get", "/v2/activity-logs", GetActivitiesResponse>>,
     <<"get", "/v2/account", GetUserAccountResponse>>,
     <<"get", "/v2/account/variables", GetAccountVariablesResponse>>,
     <<"get", "/v2/account/users", GetUsersResponse>>,
     <<"get", "/v2/account/sites", GetSitesResponse>>,
     <<"get", "/v2/account/dnet-site-mappings", GetDnetSiteMappingsResponse>>,
     <<"get", "/v2/account/devices", GetUserAccountDevicesResponse>>,
     <<"get", "/v2/account/components", GetComponentsResponse>>,
     <<"get", "/v2/account/alerts/resolved",
       GetUserAccountClosedAlertsResponse>>,
     <<"get", "/v2/account/alerts/open", GetUserAccountOpenAlertsResponse>>}

\* What a route answers, by the path it is asked for.
AnswerAt(verb, path) ==
    (CHOOSE d \in Documented : d[1] = verb /\ d[2] = path)[3]

\* The forms a documented entity takes on the wire: as generated; with an
\* offset in a date; with a member no enumeration lists; with a udf value
\* that is not text; with more keys in an alert's context.  Of none of them is
\* the value wrong by the specification the schemas are generated from, or by
\* what schema-overrides says of the server.
Forms(entity) ==
    {"plain"} \cup (IF entity.dates # "none" THEN {"offset"} ELSE {})
              \cup (IF entity.enums THEN {"member"} ELSE {})
              \cup (IF entity.udf # "none" THEN {"udf"} ELSE {})
              \cup (IF entity.context # "none" THEN {"context"} ELSE {})

\* Whether the client's schema takes an entity in a form: an unlisted member
\* is forgiven (module Leniency), a wrong value is not.
Takes(schema, form) ==
    /\ form # "wrong"
    /\ form = "offset" => schema.dates # "utc"
    /\ form = "udf" => schema.udf # "text"

\* What the validated value has of an entity: a key outside of the schema is
\* stripped.
Keeps(schema, entity, form) ==
    /\ entity.fields \subseteq schema.fields
    /\ form = "context" => schema.context = "open"

\* How a primitive reads an answer: "whole", "less" (something documented was
\* stripped, an item dropped, or no list found where there is to be one), or
\* "rejected" (the call fails).
Reading(primitive, answer, form) ==
    LET response == primitive.response
        entity == response.entity
        refused == IF response.shape = "object" THEN "rejected" ELSE "less"
    IN  IF response.shape \in {"unknown", "void"} THEN "whole"
        ELSE IF \/ <<response.shape, response.key>> # <<answer.shape, answer.key>>
                \/ ~Takes(entity, form) THEN refused
        ELSE IF Keeps(entity, answer.entity, form) THEN "whole" ELSE "less"
=============================================================================
