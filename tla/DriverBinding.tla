--------------------------- MODULE DriverBinding ---------------------------
(***************************************************************************)
(* How a host binds a memory engine: the registry admits the configured    *)
(* driver id (registry/), the factory builds the provider for it           *)
(* (factory/), the built client asks for a credential with every request   *)
(* (remote/common.rs), and the router sends the product's six operations   *)
(* to the provider's families (routing.rs).                                *)
(***************************************************************************)
EXTENDS TLC, BusContract

CONSTANTS
    HostId,       \* an id that no engine of this workspace has
    MaxSession    \* bound on the refreshes of a host's session

ASSUME BindingAssumption == MaxSession \in Nat

VARIABLES
    choice,     \* the host's configuration: driver, its entry, endpoint, deployment, credential
    admission,  \* what the registry decided
    bound,      \* what the factory built
    token_now,  \* the token the host's session has now, 0 when signed out
    sent,       \* the credential of the last request, and the session's token then
    routed      \* the last routed operation

bdVars == <<choice, admission, bound, token_now, sent, routed>>

---------------------------------------------------------------------------
(* registry                                                                *)
DriverClasses == {"embedded", "external", "module", "null"}
Remote == {"supermemory", "mem0", "cognee", "cortex", "agentmemory", "tinyhumans"}
Ids == Remote \cup {"null", "tinycortex", "namespace", HostId}

builtin == [id \in Ids \ {HostId} |->
              IF id \in Remote THEN "external" ELSE IF id = "null" THEN "null" ELSE "embedded"]

(* Faulty variant: the host's reservation replaces the one there is. *)
ReservesAnew(reserved, id, class) == (id :> class) @@ reserved

(* An id is added and never changed. *)
with_reserved(reserved, id, class) == reserved @@ (id :> class)

empty == [id \in {} |-> "none"]

Registries == {builtin, empty} \cup {with_reserved(r, id, c) :
    r \in {builtin, empty}, id \in {HostId, "mem0"}, c \in {"embedded", "external"}}

NoEntry == [class |-> "none", trust |-> "none"]
DriverEntries == [class : DriverClasses \cup {"absent", "misspelt"}, trust : {"trusted", "untrusted"}] \cup {NoEntry}

Refusal == [id |-> "none", class |-> "none"]
Admission(id, class) == [id |-> id, class |-> class]

implicit(reserved, id) == IF id \in DOMAIN reserved THEN Admission(id, reserved[id]) ELSE Refusal

ClassOf(reserved, id, entry) ==
    IF entry.class = "absent" THEN implicit(reserved, id)
    ELSE IF entry.class = "misspelt" THEN Refusal
    ELSE IF id \in DOMAIN reserved /\ reserved[id] # entry.class THEN Refusal
    ELSE Admission(id, entry.class)

(* Faulty variant: an id without an entry is admitted as what it is reserved for. *)
AdmitsImplicitly(reserved, id, entry) ==
    IF id = "" THEN Refusal
    ELSE IF entry = NoEntry THEN implicit(reserved, id)
    ELSE LET a == ClassOf(reserved, id, entry)
         IN  IF a.class = "external" /\ entry.trust # "trusted" THEN Refusal ELSE a

admit(reserved, id, entry) ==
    IF id = "" THEN Refusal
    ELSE IF entry = NoEntry
      THEN IF id \in DOMAIN reserved /\ reserved[id] = "external" THEN Refusal ELSE implicit(reserved, id)
      ELSE LET a == ClassOf(reserved, id, entry)
           IN  IF a.class = "external" /\ entry.trust # "trusted" THEN Refusal ELSE a

(* The embedded default is what a configuration without a driver names. *)
select(reserved, driver, entry) ==
    admit(reserved, IF driver = "unset" THEN "tinycortex" ELSE driver, entry)

---------------------------------------------------------------------------
(* factory                                                                 *)
Endpoints == {"none", "blank", "default", "https", "http_local", "http_far", "not_a_url"}
Deployments == {"none", "cloud", "self_hosted", "api", "misspelt"}
Credentials == {"none", "blank", "static", "dynamic"}

endpoint_of(e) == IF e = "blank" THEN "none" ELSE e
static_value(c) == IF c = "static" THEN "static" ELSE "none"
reject_dynamic(c) == c = "dynamic"

Unbuilt == [driver |-> "none", endpoint |-> "none", auth |-> "none"]

(* HttpClient::new_with_subject: a URL with the scheme http or https. *)
Client(driver, e, auth) ==
    IF e \in {"default", "https", "http_local", "http_far"}
      THEN [driver |-> driver, endpoint |-> e, auth |-> auth]
      ELSE Unbuilt

(* ensure_secure_endpoint: cleartext only to the loopback. *)
SecureClient(driver, e, auth) == IF e = "http_far" THEN Unbuilt ELSE Client(driver, e, auth)

tinycortex == [driver |-> "tinycortex_documents", endpoint |-> "none", auth |-> "none"]

supermemory(e, c) ==
    IF reject_dynamic(c) \/ e = "none" THEN Unbuilt ELSE Client("trait", e, static_value(c))

(* Mem0 and Cognee: their cloud needs a key, their own server does not. *)
CloudOrOwn(driver, cloud, e, c) ==
    IF cloud /\ static_value(c) = "none" THEN Unbuilt ELSE Client(driver, e, static_value(c))

mem0(e, deployment, c) ==
    IF reject_dynamic(c) \/ e = "none" \/ deployment \in {"api", "misspelt"} THEN Unbuilt
    ELSE CloudOrOwn("mem0_graph", deployment = "cloud" \/ (deployment = "none" /\ e = "default"), e, c)

cognee(e, deployment, c) ==
    IF reject_dynamic(c) \/ e = "none" \/ deployment \in {"api", "misspelt"} THEN Unbuilt
    ELSE CloudOrOwn("cognee_graph", deployment = "cloud", e, c)

(* Faulty variant: a managed deployment goes to the default address whatever is configured. *)
CloudIgnoresEndpoint(e, deployment, c) ==
    IF static_value(c) = "none" \/ deployment = "misspelt" \/ (e = "none" /\ deployment \in {"self_hosted", "api"})
      THEN Unbuilt
      ELSE SecureClient("cortex", IF e = "none" \/ deployment = "cloud" THEN "default" ELSE e, "static")

(* Without an endpoint only the managed API is an address; one that is given is never replaced. *)
cortex(e, deployment, c) ==
    IF static_value(c) = "none" \/ deployment = "misspelt" \/ (e = "none" /\ deployment \in {"self_hosted", "api"})
      THEN Unbuilt
      ELSE SecureClient("cortex", IF e = "none" THEN "default" ELSE e, "static")

agentmemory(e, c) ==
    IF reject_dynamic(c) THEN Unbuilt ELSE Client("trait", IF e = "none" THEN "default" ELSE e, static_value(c))

tinyhumans(e, c) ==
    IF c \in {"none", "blank"} THEN Unbuilt
    ELSE SecureClient("cortex", IF e = "none" THEN "default" ELSE e, c)

build_provider(id, endpoint, deployment, c) ==
    LET e == endpoint_of(endpoint)
    IN  CASE id = "tinycortex" -> tinycortex
          [] id = "supermemory" -> supermemory(e, c)
          [] id = "mem0" -> mem0(e, deployment, c)
          [] id = "cognee" -> cognee(e, deployment, c)
          [] id = "cortex" -> cortex(e, deployment, c)
          [] id = "agentmemory" -> agentmemory(e, c)
          [] id = "tinyhumans" -> tinyhumans(e, c)
          [] OTHER -> Unbuilt

(* What a picker is told of an engine. *)
Descriptor(endpoint, key, optional, deployments, default, hosted) ==
    [needs_endpoint |-> endpoint, needs_key |-> key, key_optional |-> optional,
     deployments |-> deployments, default_endpoint |-> default, hosted |-> hosted]
TwoDeployments == {"cloud", "self_hosted"}

list_engines ==
    [tinycortex  |-> Descriptor(FALSE, FALSE, FALSE, {}, FALSE, FALSE),
     supermemory |-> Descriptor(TRUE, TRUE, TRUE, {}, TRUE, FALSE),
     mem0        |-> Descriptor(TRUE, TRUE, TRUE, TwoDeployments, TRUE, FALSE),
     cognee      |-> Descriptor(TRUE, TRUE, TRUE, TwoDeployments, FALSE, FALSE),
     cortex      |-> Descriptor(FALSE, TRUE, FALSE, TwoDeployments, TRUE, FALSE),
     agentmemory |-> Descriptor(TRUE, TRUE, TRUE, {}, TRUE, FALSE),
     tinyhumans  |-> Descriptor(FALSE, FALSE, FALSE, {}, TRUE, TRUE)]

---------------------------------------------------------------------------
(* The host: configure, select, build, then send requests.                 *)
Quiet == [op |-> "none", result |-> "none"]
Unsent == [auth |-> "none", token |-> 0, held |-> 0]

BdInit ==
    /\ choice \in [driver : Ids \cup {"unset", ""}, entry : DriverEntries, reserved : Registries,
                   endpoint : {"none"}, deployment : {"none"}, credential : {"none"}]
    /\ admission = Refusal
    /\ bound = Unbuilt
    /\ token_now = 1
    /\ sent = Unsent
    /\ routed = Quiet

Select ==
    /\ admission = Refusal
    /\ admission' = select(choice.reserved, choice.driver, choice.entry)
    /\ UNCHANGED <<choice, bound, token_now, sent, routed>>

Configure(endpoint, deployment, credential) ==
    [choice EXCEPT !.endpoint = endpoint, !.deployment = deployment, !.credential = credential]

BuildProvider ==
    /\ admission # Refusal /\ bound = Unbuilt
    /\ \E endpoint \in Endpoints, deployment \in Deployments, credential \in Credentials :
         /\ choice' = Configure(endpoint, deployment, credential)
         /\ bound' = build_provider(admission.id, endpoint, deployment, credential)
         /\ bound' # Unbuilt
    /\ UNCHANGED <<admission, token_now, sent, routed>>

(* The host's session is refreshed, or ends. *)
Refresh ==
    /\ bound.auth = "dynamic" /\ token_now < MaxSession
    /\ token_now' = token_now + 1
    /\ UNCHANGED <<choice, admission, bound, sent, routed>>

SignOut ==
    /\ bound.auth = "dynamic" /\ token_now' = 0
    /\ UNCHANGED <<choice, admission, bound, sent, routed>>

(* Faulty variant: the token that was there when the client was built. *)
FirstToken == IF token_now = 0 THEN 0 ELSE 1

(* A dynamic source is asked with every request. *)
Token == token_now

(* HttpClient::request: without a token nothing is sent. *)
Sends ==
    /\ bound.endpoint # "none"
    /\ bound.auth = "dynamic" => token_now # 0
    /\ sent' = [auth |-> bound.auth, token |-> IF bound.auth = "dynamic" THEN Token ELSE 0, held |-> token_now]
    /\ UNCHANGED <<choice, admission, bound, token_now, routed>>

(* MemoryApi: the six operations and the families they need. *)
OperationFamily == [ingest_document |-> "document_ingest", ingest_conversation |-> "conversation_ingest",
                    ingest_learning |-> "learning_ingest", ingest_event |-> "event_ingest",
                    recall |-> "recall", answer |-> "answer"]

MemoryApi(op) ==
    /\ bound # Unbuilt
    /\ routed' = [op |-> op, result |-> IF Provides(bound.driver, OperationFamily[op])
                                          THEN "routed" ELSE "unsupported"]
    /\ UNCHANGED <<choice, admission, bound, token_now, sent>>

BdNext ==
    \/ Select \/ BuildProvider \/ Refresh \/ SignOut \/ Sends
    \/ \E op \in DOMAIN OperationFamily : MemoryApi(op)

---------------------------------------------------------------------------
BdTypeOK ==
    /\ admission = Refusal \/ (admission.id \in Ids /\ admission.class \in DriverClasses)
    /\ bound.driver \in DOMAIN Drivers \cup {"none"}
    /\ token_now \in 0..MaxSession

(* An id of this workspace binds as what it is, whatever the entry and the
   host's own reservations say, unless the host starts from the registry that
   reserves nothing, where an id binds as an entry says; nothing outside the
   process binds without explicit trust; a configuration that names no driver
   gets the embedded one. *)
BoundAsReserved ==
    admission # Refusal =>
      /\ (admission.id \in DOMAIN builtin /\ DOMAIN builtin \subseteq DOMAIN choice.reserved)
           => admission.class = builtin[admission.id]
      /\ admission.id \notin DOMAIN choice.reserved => admission.class = choice.entry.class
      /\ admission.class = "external" => choice.entry.trust = "trusted"
      /\ choice.driver = "unset" => admission.id = "tinycortex"

(* A configuration filled in as list_engines describes an engine is one the
   factory builds: with everything given in every deployment, with the
   optional parts left out in at least one. *)
DescribedIsBuilt ==
    \A id \in DOMAIN list_engines :
      LET d == list_engines[id]
          choices == IF d.deployments = {} THEN {"none"} ELSE d.deployments
          credential == IF d.hosted THEN "dynamic" ELSE IF d.needs_key THEN "static" ELSE "none"
          spare == IF d.key_optional THEN "none" ELSE credential
          given == {"https", "http_local"} \cup IF d.default_endpoint THEN {"default"} ELSE {}
      IN  /\ \A e \in given, dep \in choices \cup {"none"} :
               LET b == build_provider(id, e, dep, credential)
               IN  b # Unbuilt /\ b.endpoint \in {e, tinycortex.endpoint}
          /\ \E dep \in choices :
               build_provider(id, IF d.needs_endpoint THEN "https" ELSE "none", dep, spare) # Unbuilt

(* What the registry admits of this workspace, the factory can build, but for
   the null driver and the namespace store, which a host builds itself. *)
AdmittedIsBuildable ==
    admission # Refusal /\ admission.id \notin {"null", "namespace", HostId} =>
      admission.id \in DOMAIN list_engines

(* Cortex and its hosted form never send their credential in cleartext over a
   network; a request carries the session's token of that moment. *)
CredentialKept ==
    /\ bound.driver = "cortex" => bound.endpoint # "http_far" /\ bound.auth # "none"
    /\ sent.auth = "dynamic" => sent.token = sent.held

(* The router serves exactly what the bound provider advertises. *)
AdvertisedIsRouted ==
    routed # Quiet =>
      (routed.result = "routed") =
        (OperationFamily[routed.op] \in MANDATORY \cup Drivers[bound.driver].advertised)

BindingSound ==
    /\ BdTypeOK /\ BoundAsReserved /\ DescribedIsBuilt /\ AdmittedIsBuildable
    /\ CredentialKept /\ AdvertisedIsRouted /\ FamiliesSurvive
=============================================================================
