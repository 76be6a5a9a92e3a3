--------------------------- MODULE FieldRegistry ---------------------------
(***************************************************************************)
(* Which Wazuh field stands for a Sigma field: the verified mappings of    *)
(* fields/windows.py, their lookup in a log source (fields/registry.py)    *)
(* and the order in which SigmaFieldMapper.resolve_field (backend/         *)
(* wazuh.py) asks its sources.  The registry is a sequence of mappings,    *)
(* because equally specific mappings are told apart by their position.     *)
(*                                                                         *)
(* A target is a name in a namespace: "system" and "eventdata" for         *)
(* win.system.* and win.eventdata.*, "other" for any other win.*, "bare"   *)
(* for a name without the prefix.  Most event data fields have the Sigma   *)
(* name with a small first letter: Decoded names them by the Sigma name.   *)
(* Products, services and categories are compared in lower case.           *)
(***************************************************************************)
EXTENDS Naturals, Sequences, FiniteSets

CONSTANT NoValue   \* a key the log source of the rule does not have

ASSUME NoValueAssumption == NoValue # "windows"

Target(namespace, name) == [namespace |-> namespace, name |-> name]
Decoded(name) == Target("eventdata", name)

FieldMapping(sigma, target, services, categories) ==
  [sigma |-> sigma, target |-> target, products |-> {"windows"},
   services |-> services, categories |-> categories, documented |-> TRUE]

(* A run of mappings to the decoded fields of the same names. *)
Mappings(services, categories, names) ==
  [i \in DOMAIN names |-> FieldMapping(names[i], Decoded(names[i]), services, categories)]

Renamed(services, sigma, name) ==
  << FieldMapping(sigma, Decoded(name), services, {}) >>

-----------------------------------------------------------------------------
(* WINDOWS_FIELD_MAPPINGS, in the order of the file. *)

SystemFields ==
  LET System(sigma, name) == FieldMapping(sigma, Target("system", name), {}, {})
  IN  << System("EventID", "eventID"), System("event_id", "eventID"),
         System("Provider_Name", "providerName"), System("Channel", "channel"),
         System("ComputerName", "computer"), System("Hostname", "computer") >>

ProcessFields ==
  Mappings({"sysmon"}, {}, <<"Image", "CommandLine", "ParentImage", "ParentCommandLine">>)
  \o Mappings({"sysmon"}, {"create_remote_thread", "process_access"},
              <<"SourceImage", "TargetImage">>)
  \o Mappings({"sysmon"}, {}, <<"ProcessId", "ParentProcessId", "User", "TargetFilename">>)

NetworkFields ==
  Mappings({"sysmon"}, {}, <<"SourceIp", "DestinationIp", "SourcePort", "DestinationPort",
                             "Protocol">>)
  \o Renamed({"sysmon"}, "Registry", "RegistryPath")
  \o Mappings({"sysmon"}, {}, <<"RegistryPath", "Details", "Hashes", "MD5", "SHA1",
                                "SHA256", "Imphash">>)

AccountFields ==
  Mappings({"security"}, {"authentication"}, <<"LogonType", "LogonGuid">>)
  \o Mappings({"security"}, {}, <<"TargetUserName", "SubjectUserName">>)
  \o Mappings({}, {}, <<"TargetHostname", "Domain", "DomainName">>)
  \o Renamed({}, "Account", "AccountName")
  \o Mappings({"security"}, {}, <<"ServiceName", "CallerProcessName">>)
  \o Mappings({"dns-client"}, {}, <<"QueryName">>)

LogonFields ==
  Mappings({"sysmon"}, {}, <<"ProcessPath", "ExceptionCode">>)
  \o Mappings({"security"}, {}, <<"AuthenticationPackageName", "IpAddress", "IpPort",
                                  "WorkstationName", "LogonProcessName",
                                  "SubjectUserSid", "TargetUserSid">>)
  \o Mappings({"sysmon"}, {"network_connection"}, <<"Initiated">>)
  \o Mappings({"sysmon"}, {}, <<"CreationUtcTime", "EventType">>)

(* One mapping for each of two categories, field by field. *)
VersionFields ==
  Mappings({"sysmon"}, {"dns_query"}, <<"QueryResults", "QueryStatus">>)
  \o [i \in 1..8 |->
       LET names == <<"OriginalFileName", "Description", "Product", "Company">>
           name == names[(i + 1) \div 2]
       IN  FieldMapping(name, Decoded(name), {"sysmon"},
                        IF i % 2 = 1 THEN {"process_creation"} ELSE {"image_load"})]

ImageFields ==
  Mappings({"sysmon"}, {"process_creation"}, <<"IntegrityLevel">>)
  \o Mappings({"sysmon"}, {}, <<"ProcessGuid">>)
  \o Mappings({"sysmon"}, {"process_creation"}, <<"ParentProcessGuid">>)
  \o Mappings({"sysmon"}, {"image_load"}, <<"ImageLoaded", "Signed", "Signature",
                                            "SignatureStatus">>)
  \o Mappings({"sysmon"}, {"process_access"}, <<"GrantedAccess", "CallTrace",
                                                "SourceProcessGuid", "TargetProcessGuid">>)
  \o Mappings({"sysmon"}, {"pipe_created"}, <<"PipeName">>)

SessionFields ==
  Mappings({"sysmon"}, {"process_creation"}, <<"CurrentDirectory", "FileVersion">>)
  \o Mappings({"sysmon"}, {"image_load"}, <<"FileVersion">>)
  \o Mappings({"sysmon"}, {"process_creation"}, <<"ParentUser", "LogonId">>)
  \o Mappings({"sysmon"}, {"create_stream_hash"}, <<"Contents", "Hash">>)
  \o Mappings({"powershell"}, {"ps_script"}, <<"ScriptBlockText", "Path">>)
  \o Mappings({"application"}, {}, <<"Data">>)
  \o Renamed({"application"}, "AppName", "Source")
  \o Mappings({"application"}, {}, <<"ExceptionCode">>)

ServiceFields ==
  Mappings({"powershell-classic"}, {}, <<"Data">>)
  \o Mappings({}, {"ps_classic_start"}, <<"Data">>)
  \o Mappings({}, {"ps_classic_provider_start"}, <<"Data">>)
  \o Mappings({"system"}, {}, <<"ImagePath">>)
  \o Renamed({"system"}, "ServiceFileName", "ImagePath")
  \o Mappings({"system"}, {}, <<"ServiceName">>)
  \o Mappings({"security"}, {}, <<"ObjectName", "ProcessName", "ObjectType", "AccessMask",
                                  "AccessList", "PrivilegeList", "Service">>)

ChannelFields ==
  Mappings({"security"}, {}, <<"TargetName", "KeyLength", "Status", "Workstation">>)
  \o Mappings({"bits-client"}, {}, <<"ProcessPath">>)
  \o Renamed({"bits-client"}, "processPath", "ProcessPath")
  \o Mappings({"bits-client"}, {}, <<"LocalName", "RemoteName">>)
  \o Mappings({"windefend"}, {}, <<"Path">>)
  \o Mappings({"taskscheduler"}, {}, <<"Path">>)
  \o Mappings({"firewall-as"}, {}, <<"Action", "ApplicationPath", "ModifyingApplication">>)

DefenderFields ==
  Renamed({"windefend"}, "NewValue", "new Value")
  \o Mappings({"sysmon"}, {}, <<"TargetObject">>)

WindowsFieldMappings ==
  SystemFields \o ProcessFields \o NetworkFields \o AccountFields \o LogonFields
    \o VersionFields \o ImageFields \o SessionFields \o ServiceFields
    \o ChannelFields \o DefenderFields

(* DEFAULT_FIELD_MAPPING: older than the registry, with one field it lacks. *)
DefaultFieldMapping ==
  [f \in {"EventID", "event_id", "Provider_Name", "Channel", "ComputerName", "Hostname",
          "Image", "CommandLine", "ParentImage", "ParentCommandLine", "User",
          "TargetFilename", "SourceIp", "DestinationIp", "SourcePort", "DestinationPort",
          "Protocol", "Registry", "RegistryPath", "Details", "ProcessId",
          "ParentProcessId", "LogonType", "LogonGuid", "TargetUserName",
          "SubjectUserName", "Hashes", "MD5", "SHA1", "SHA256", "Imphash",
          "TargetHostname", "Domain", "DomainName", "Account", "ServiceName",
          "CallerProcessName", "NewProcessName"} |->
    IF f = "NewProcessName" THEN Decoded(f)
    ELSE WindowsFieldMappings[CHOOSE i \in DOMAIN WindowsFieldMappings :
                                WindowsFieldMappings[i].sigma = f].target]

-----------------------------------------------------------------------------
(* The registry's lookup.  A context is a log source: product, service and  *)
(* category, each possibly NoValue.  A restriction only excludes a rule that *)
(* states another value: a rule that says nothing passes every one.          *)

Admits(restriction, value) ==
  restriction = {} \/ value = NoValue \/ value \in restriction

AppliesTo(mapping, context) ==
  /\ Admits(mapping.products, context.product)
  /\ Admits(mapping.services, context.service)
  /\ Admits(mapping.categories, context.category)

Specificity(mapping) == Cardinality(mapping.services) + Cardinality(mapping.categories)

Applicable(registry, field, context) ==
  { i \in DOMAIN registry : registry[i].sigma = field /\ AppliesTo(registry[i], context) }

(* The sort is stable and by specificity only: the first of the most specific. *)
Lookup(registry, field, context) ==
  LET applicable == Applicable(registry, field, context)
      Better(i, j) == \/ Specificity(registry[i]) > Specificity(registry[j])
                      \/ Specificity(registry[i]) = Specificity(registry[j]) /\ i <= j
  IN  CHOOSE i \in applicable : \A j \in applicable : Better(i, j)

Resolved(target) == [status |-> "resolved", target |-> target]
Unresolved(status) == [status |-> status, target |-> NoValue]

(* "raised" is UnsupportedWindowsFieldError.                                *)
Resolve(registry, field, context, mode) ==
  IF Applicable(registry, field, context) # {}
  THEN Resolved(registry[Lookup(registry, field, context)].target)
  ELSE CASE mode = "legacy" -> [status |-> "legacy_fallback", target |-> Target("bare", field)]
         [] mode = "warn"   -> Unresolved("warning")
         [] mode = "strict" -> Unresolved(IF context.product = "windows" THEN "raised"
                                          ELSE "unsupported")

(* Wazuh's own fields, which no decoder renames. *)
StaticFields ==
  {"action", "data", "dstip", "dstport", "extra_data", "hostname", "id", "location",
   "program_name", "protocol", "srcip", "srcport", "status", "system_name", "url", "user"}

(* overrides: the function of the configuration's field_mapping.            *)
ResolveField(registry, overrides, field, context, mode) ==
  LET result == Resolve(registry, field, context, mode)
  IN  CASE field \in StaticFields -> Resolved(Target("bare", field))
        [] field \notin StaticFields /\ field \in DOMAIN overrides ->
             Resolved(overrides[field])
        [] OTHER ->
             IF /\ result.status \notin {"resolved", "raised"}
                /\ field \in DOMAIN DefaultFieldMapping
                /\ mode = "legacy" \/ context.product # "windows"
             THEN Resolved(DefaultFieldMapping[field])
             ELSE result

ShouldEmit(result) == result.status \in {"resolved", "legacy_fallback"}

-----------------------------------------------------------------------------
(* Extending the registry. *)

ValidMapping(mapping) ==
  /\ mapping.sigma # NoValue
  /\ mapping.target # NoValue
  /\ mapping.target.namespace # "other"
  /\ mapping.documented

(* No product at all means Windows too. *)
SafeForMode(mapping, mode) ==
  (mapping.products = {} \/ "windows" \in mapping.products)
    => mapping.target.namespace # "bare" \/ mode = "legacy"

AddMapping(registry, mapping) == Append(registry, mapping)

(* All or none: the batch is only appended once each of it has passed. *)
AddCustomMappings(registry, batch) == registry \o batch

=============================================================================
