---------------------------- MODULE Schemas ---------------------------------
(***************************************************************************)
(* The generated response and request schemas (src/generated/schemas), one *)
(* definition for each, with what tells them apart to the client: the      *)
(* fields an entity documents, and where a documented value may still fail *)
(* a parse.  A trait says that the entity has, at whatever depth,          *)
(*   "dates"    a date-time, which the generated schema takes with an      *)
(*              offset from UTC as well as without,                        *)
(*   "enums"    an enumeration,                                            *)
(*   "udf"      user defined fields, generated as text,                    *)
(*   "context"  an alert's context, generated with its discriminator only. *)
(* The fields inside of a nested object are not told apart.                *)
(***************************************************************************)

\* An entity, as the generated schema takes it: which forms of a date-time,
\* of a udf value and of an alert's context.
Entity(fields, traits) ==
    [fields  |-> fields,
     enums   |-> "enums" \in traits,
     dates   |-> IF "dates" \in traits THEN "offset" ELSE "none",
     udf     |-> IF "udf" \in traits THEN "text" ELSE "none",
     context |-> IF "context" \in traits THEN "closed" ELSE "none"]

\* The shapes of a response: one object, a page of a collection under its key,
\* a bare array, no content, or anything at all.
Response(shape, key, entity) ==
    [shape |-> shape, key |-> key, entity |-> entity]

Object(entity) == Response("object", "none", entity)
PageOf(key, entity) == Response("page", key, entity)
ArrayOf(object) == Response("array", "none", object.entity)
Void == Response("void", "none", Entity({}, {}))
Unknown == Response("unknown", "none", Entity({}, {}))

\* A request body: a key outside of the schema is an error.  "some" tells that
\* one field at least must be given, "nulls" which fields may be null.
StrictObject(required, optional) ==
    [required |-> required, optional |-> optional, some |-> FALSE,
     nulls |-> {}]

(* The entities. *)
Account ==
    Entity({"id", "name", "descriptor", "uid", "currency", "devicesStatus"}, {})
Variable == Entity({"id", "name", "value", "masked"}, {})
AuthUser ==
    Entity({"lastName", "firstName", "username", "email", "telephone",
            "status", "created", "lastAccess", "disabled"}, {})
Site ==
    Entity({"id", "uid", "accountUid", "name", "description", "notes",
            "onDemand", "splashtopAutoInstall", "proxySettings",
            "devicesStatus", "autotaskCompanyName", "autotaskCompanyId",
            "portalUrl"}, {"enums"})
DnetSiteMapping ==
    Entity({"id", "uid", "accountUid", "name", "description",
            "dattoNetworkingNetworkIds", "portalUrl"}, {})
Device ==
    Entity({"id", "uid", "siteId", "siteUid", "siteName", "deviceType",
            "hostname", "intIpAddress", "operatingSystem",
            "lastLoggedInUser", "domain", "cagVersion", "displayVersion",
            "extIpAddress", "description", "a64Bit", "rebootRequired",
            "online", "suspended", "deleted", "lastSeen", "lastReboot",
            "lastAuditDate", "creationDate", "udf", "snmpEnabled",
            "deviceClass", "portalUrl", "warrantyDate", "antivirus",
            "patchManagement", "softwareStatus", "webRemoteUrl",
            "networkProbe", "onboardedViaNetworkMonitor"}, {"enums", "udf"})
Component ==
    Entity({"id", "credentialsRequired", "uid", "name", "description",
            "categoryCode", "variables"}, {})
Alert ==
    Entity({"alertUid", "priority", "diagnostics", "resolved", "resolvedBy",
            "resolvedOn", "muted", "ticketNumber", "timestamp",
            "alertMonitorInfo", "alertContext", "alertSourceInfo",
            "responseActions", "autoresolveMins"},
           {"dates", "enums", "context"})
ActivityLog ==
    Entity({"id", "entity", "category", "action", "date", "site", "deviceId",
            "hostname", "user", "details", "hasStdOut", "hasStdErr"}, {"enums"})
PrinterAudit ==
    Entity({"portalUrl", "snmpInfo", "printerMarkerSupplies", "printer",
            "systemInfo", "nics"}, {})
EsxiHostAudit ==
    Entity({"portalUrl", "systemInfo", "guests", "processors", "nics",
            "physicalMemory", "datastores"}, {})
DeviceAudit ==
    Entity({"portalUrl", "webRemoteUrl", "systemInfo", "nics", "bios",
            "baseBoard", "displays", "logicalDisks", "mobileInfo",
            "processors", "videoBoards", "attachedDevices", "snmpInfo",
            "physicalMemory"}, {"dates"})
Software == Entity({"name", "version"}, {})
QuickJob == Entity({"jobComponents", "job"}, {"dates", "enums"})
Filter ==
    Entity({"id", "name", "description", "type", "dateCreate", "lastUpdated"},
           {"dates", "enums"})
Job ==
    Entity({"id", "dateCreated", "name", "uid", "status"}, {"dates", "enums"})
JobResults ==
    Entity({"jobUid", "deviceUid", "ranOn", "jobDeploymentStatus",
            "componentResults"}, {"dates", "enums"})
JobStdData == Entity({"componentUid", "componentName", "stdData"}, {})
JobComponent == Entity({"uid", "name", "variables"}, {})
SiteSettings ==
    Entity({"generalSettings", "proxySettings", "mailRecipients"}, {"enums"})
DeviceNetworkInterface ==
    Entity({"id", "uid", "siteId", "siteUid", "siteName", "deviceType",
            "hostname", "intIpAddress", "extIpAddress", "nics"}, {})
Status == Entity({"version", "status", "started"}, {"dates"})
RateStatus ==
    Entity({"slidingTimeWindowSizeSeconds", "accountUid", "accountCount",
            "accountRateLimit", "accountCutOffRatio",
            "accountWriteRateLimit", "accountWriteCount",
            "operationWriteStatus"}, {})
PaginationConfiguration == Entity({"max"}, {})
AuthUserKey == Entity({"apiAccessKey", "apiSecretKey", "userName"}, {})

(* The tag -v2-account. *)
CreateAccountVariableBody == StrictObject({}, {"name", "value", "masked"})
CreateAccountVariableResponse == Void
UpdateAccountVariableBody == StrictObject({}, {"name", "value"})
UpdateAccountVariableResponse == Void
DeleteAccountVariableResponse == Void
GetUserAccountResponse == Object(Account)
GetAccountVariablesResponse == PageOf("variables", Variable)
GetUsersResponse == PageOf("users", AuthUser)
GetSitesResponse == PageOf("sites", Site)
GetDnetSiteMappingsResponse == PageOf("dnetSiteMappings", DnetSiteMapping)
GetUserAccountDevicesResponse == PageOf("devices", Device)
GetComponentsResponse == PageOf("components", Component)
GetUserAccountClosedAlertsResponse == PageOf("alerts", Alert)
GetUserAccountOpenAlertsResponse == PageOf("alerts", Alert)

(* The tag -v2-activity-logs. *)
GetActivitiesResponse == PageOf("activities", ActivityLog)

(* The tag -v2-alert. *)
UnmuteAlertResponse == Unknown
ResolveAlertResponse == Void
MuteAlertResponse == Unknown
GetAlertResponse == Object(Alert)

(* The tag -v2-audit. *)
GetPrinterAuditResponse == Object(PrinterAudit)
GetEsxiHostAuditResponse == Object(EsxiHostAudit)
GetDeviceAuditResponse == Object(DeviceAudit)
GetDeviceAuditSoftwareResponse == PageOf("software", Software)
GetDeviceAuditByMacAddressResponseItem == Object(DeviceAudit)
GetDeviceAuditByMacAddressResponse ==
    ArrayOf(GetDeviceAuditByMacAddressResponseItem)

(* The tag -v2-device. *)
MoveDeviceResponse == Void
CreateQuickJobBody == StrictObject({"jobName", "jobComponent"}, {})
CreateQuickJobResponse == Object(QuickJob)
SetWarrantyDataBody == StrictObject({}, {"warrantyDate"})
SetWarrantyDataResponse == Void
SetUdfFieldsBody == StrictObject({}, {"udf1", "udf300"})
SetUdfFieldsResponse == Void
GetByUidResponse == Object(Device)
GetDeviceResolvedAlertsResponse == PageOf("alerts", Alert)
GetDeviceOpenAlertsResponse == PageOf("alerts", Alert)
GetByMacAddressResponseItem == Object(Device)
GetByMacAddressResponse == ArrayOf(GetByMacAddressResponseItem)
GetByIdResponse == Object(Device)

(* The tag -v2-filter. *)
GetDefaultsFiltersResponse == PageOf("filters", Filter)
GetCustomFiltersResponse == PageOf("filters", Filter)

(* The tag -v2-job. *)
Get1Response == Object(Job)
GetJobResultsResponse == Object(JobResults)
GetStdOutResponseItem == Object(JobStdData)
GetStdOutResponse == ArrayOf(GetStdOutResponseItem)
GetStdErrResponseItem == Object(JobStdData)
GetStdErrResponse == ArrayOf(GetStdErrResponseItem)
GetJobComponentsResponse == PageOf("jobComponents", JobComponent)

(* The tag -v2-site. *)
CreateBody == StrictObject({"name"},
        {"description", "notes", "onDemand", "splashtopAutoInstall",
         "proxySettings"})
CreateResponse == Object(Site)
CreateSiteVariableBody == StrictObject({}, {"name", "value", "masked"})
CreateSiteVariableResponse == Void
GetSiteResponse == Object(Site)
UpdateBody == StrictObject({"name"},
        {"description", "notes", "onDemand", "splashtopAutoInstall"})
UpdateResponse == Object(Site)
UpdateSiteVariableBody == StrictObject({}, {"name", "value"})
UpdateSiteVariableResponse == Void
DeleteSiteVariableResponse == Void
UpdateProxyBody == StrictObject({},
        {"host", "password", "port", "type", "username"})
UpdateProxyResponse == Object(SiteSettings)
DeleteProxyResponse == Void
GetSiteVariablesResponse == PageOf("variables", Variable)
GetSiteSettingsResponse == Object(SiteSettings)
GetSiteDeviceFiltersResponse == PageOf("filters", Filter)
GetSiteDevicesResponse == PageOf("devices", Device)
GetSiteDevicesWithNetworkInterfaceResponse ==
    PageOf("devices", DeviceNetworkInterface)
GetSiteResolvedAlertsResponse == PageOf("alerts", Alert)
GetSiteOpenAlertsResponse == PageOf("alerts", Alert)

(* The tag -v2-system. *)
GetStatusResponse == Object(Status)
GetResponse == Object(RateStatus)
GetPaginationConfigurationsResponse == Object(PaginationConfiguration)

(* The tag -v2-user. *)
ResetApiKeysResponse == Object(AuthUserKey)
=============================================================================
