------------------------------ MODULE Egress ------------------------------
(***************************************************************************)
(* The way out: the provider registry (ai-providers/src/registry.rs), what *)
(* the two adapters do between chat_stream or list_models and the response *)
(* (openai_compatible/provider.rs and request.rs, anthropic.rs), and the   *)
(* sandboxed HTTP client every request passes (client.rs).  Callers,       *)
(* the user who edits providers and keys, the approval prompt and the      *)
(* server take steps in any order.  The client follows redirects inside    *)
(* the HTTP library; what is sent here is the first request.               *)
(*                                                                         *)
(* A provider is the adapter built from a configuration: its kind, key     *)
(* reference, endpoint, and what is wrong with the configuration.          *)
(***************************************************************************)
EXTENDS Naturals

CONSTANTS
  Caller, Config, Ref, Key, BadKey, None, Status,
  Port, Policies,
  Conversation, Family, \* what callers ask, and of which model families
  MaxEdits, MaxRotations

ASSUME NoneAssumption == None \notin Config \cup Key
ASSUME RefAssumption == \A config \in Config : config.ref \in Ref
ASSUME BoundsAssumption == MaxEdits \in Nat /\ MaxRotations \in Nat

Sandbox  == INSTANCE Sandbox
Requests == INSTANCE Requests

ASSUME PolicyAssumption ==
  \A p \in Policies : p.permissions \in [Sandbox!Operation -> Sandbox!AccessLevel]

VARIABLES
  registry,  \* ProviderRegistry::providers
  secrets,   \* the secret store
  policy,    \* SandboxedHttpClient::policy, fixed once built
  calls,
  sent,      \* history: the requests that went out
  paired,    \* history: endpoints and keys some configuration brought together
  approved,  \* history: the callers whose prompt was answered with approval in time
  edits, rotations

vars == <<registry, secrets, policy, calls, sent, paired, approved, edits, rotations>>
user == <<registry, secrets, paired, edits, rotations>>

Id       == {config.id : config \in Config}
Endpoint == {config.endpoint : config \in Config}
Kind     == {"openai", "anthropic"}
Outcome  == {"Network", "Auth", "RateLimited", "InvalidRequest", "ProviderError", "Unsupported",
             "Other", "opened", "listed", "dropped"}
At       == {"idle", "called", "asking", "cleared", "waiting", "failing", "reading", "ended"}
Call     == [at : At, what : {"chat", "models"}, provider : Config \cup {None},
             key : Key \cup {None}, stale : BOOLEAN, status : Status \cup {0},
             outcome : Outcome \cup {None}]
Unused   == [at |-> "idle", what |-> "chat", provider |-> None, key |-> None, stale |-> FALSE,
             status |-> 0, outcome |-> None]

Init ==
  /\ registry = [id \in Id |-> None]
  /\ secrets = [ref \in Ref |-> None]
  /\ policy \in Policies
  /\ calls = [c \in Caller |-> Unused]
  /\ sent = {} /\ paired = {} /\ approved = {}
  /\ edits = 0 /\ rotations = 0

(***************************************************************************)
(* A call goes on, or its stream yields one error and ends.                *)
(***************************************************************************)
GoesTo(c, at) == calls' = [calls EXCEPT ![c].at = at]
EndsWith(c, outcome) == calls' = [calls EXCEPT ![c].at = "ended", ![c].outcome = outcome]

-----------------------------------------------------------------------------
(***************************************************************************)
(* The user.  register refuses an identifier that is taken; a lookup       *)
(* clones the adapter, so a removed one serves the calls that have it.     *)
(* notify_change does nothing yet.                                         *)
(***************************************************************************)
Pairs(providers, keys) ==
  {<<config.endpoint, keys[config.ref]>> :
     config \in {p \in Config : \E id \in Id : providers[id] = p}}

Register(config) ==
  /\ edits < MaxEdits /\ edits' = edits + 1
  /\ registry[config.id] = None
  /\ registry' = [registry EXCEPT ![config.id] = config]
  /\ paired' = paired \cup Pairs(registry', secrets)
  /\ UNCHANGED <<secrets, policy, calls, sent, approved, rotations>>

RemoveProvider(id) ==
  /\ registry[id] # None
  /\ registry' = [registry EXCEPT ![id] = None]
  /\ UNCHANGED <<secrets, policy, calls, sent, paired, approved, edits, rotations>>

StoreKey(ref, key) ==
  /\ rotations < MaxRotations /\ rotations' = rotations + 1
  /\ secrets[ref] # key
  /\ secrets' = [secrets EXCEPT ![ref] = key]
  /\ paired' = paired \cup Pairs(registry, secrets')
  /\ UNCHANGED <<registry, policy, calls, sent, approved, edits>>

-----------------------------------------------------------------------------
(***************************************************************************)
(* lookup and chat_stream.  The alternative adapter checks at once that    *)
(* the model names it, under its fixed identifier whatever it is           *)
(* registered as; then the capabilities, and for the industry-standard one *)
(* the conversation's shape.  Nothing else happens before the first poll.  *)
(***************************************************************************)
Refusal(provider, named, conv, families) ==
  IF provider.kind = "anthropic"
  THEN IF named # "anthropic" THEN "ProviderError"
       ELSE IF ~Requests!CheckCapabilities(conv, Requests!ModelCapabilitiesFor(families))
            THEN "Unsupported" ELSE None
  ELSE IF ~Requests!CheckCapabilities(conv, Requests!CapabilitiesFor(families)) THEN "Unsupported"
       ELSE IF Requests!BuildMessages(conv) = "refused" THEN "InvalidRequest" ELSE None

ChatStream(c, id, named, conv, families) ==
  LET refusal == Refusal(registry[id], named, conv, families)
  IN /\ calls[c].at = "idle" /\ registry[id] # None
     /\ calls' = [calls EXCEPT ![c] =
          [Unused EXCEPT !.at = IF refusal = None THEN "called" ELSE "ended",
                         !.provider = registry[id], !.outcome = refusal]]
     /\ UNCHANGED <<user, policy, sent, approved>>

(***************************************************************************)
(* list_models: a static table for the alternative adapter, a gated GET of *)
(* /models for the other.                                                  *)
(***************************************************************************)
ListModels(c, id) ==
  /\ calls[c].at = "idle" /\ registry[id] # None
  /\ calls' = [calls EXCEPT ![c] =
       [Unused EXCEPT !.what = "models", !.provider = registry[id],
          !.at = IF registry[id].kind = "anthropic" THEN "ended" ELSE "called",
          !.outcome = IF registry[id].kind = "anthropic" THEN "listed" ELSE None]]
  /\ UNCHANGED <<user, policy, sent, approved>>

(***************************************************************************)
(* The first poll: the key is read, and a missing key or a store that      *)
(* fails ends the call.  build_request puts the industry-standard          *)
(* adapter's request together now, with whatever is wrong in key, headers  *)
(* or URL; the alternative adapter has its URL parsed now and its headers  *)
(* after the gate.  `stale` notes that the provider is no longer the one   *)
(* registered.                                                             *)
(***************************************************************************)
BuildError(provider, key) ==
  CASE provider.kind = "anthropic" -> IF provider.flaw = "url" THEN "InvalidRequest" ELSE None
    [] key \in BadKey              -> "Auth"
    [] provider.flaw = "headers"   -> "InvalidRequest"
    [] provider.flaw = "url"       -> "Other"
    [] OTHER                       -> None

(***************************************************************************)
(* SandboxedHttpClient::gate up to its prompt.                             *)
(***************************************************************************)
Gate(endpoint) == Sandbox!CheckNetwork(policy, endpoint.host, endpoint.port)

Open(c) ==
  /\ calls[c].at = "called"
  /\ LET provider == calls[c].provider
         key == secrets[provider.ref]
         leave == Gate(provider.endpoint)
         next == [Allow |-> "cleared", RequireApproval |-> "asking", Block |-> "ended"][leave]
     IN /\ key # None
        /\ IF BuildError(provider, key) # None THEN EndsWith(c, BuildError(provider, key))
           ELSE calls' = [calls EXCEPT ![c].at = next, ![c].key = key,
                            ![c].stale = registry[provider.id] # provider,
                            ![c].outcome = IF leave = "Block" THEN "Auth" ELSE None]
  /\ UNCHANGED <<user, policy, sent, approved>>

(***************************************************************************)
(* No key under the reference, or a secret store that fails.               *)
(***************************************************************************)
NoKey(c) ==
  /\ calls[c].at = "called"
  /\ EndsWith(c, "Auth")
  /\ UNCHANGED <<user, policy, sent, approved>>

-----------------------------------------------------------------------------
(***************************************************************************)
(* The approval prompt is answered, or the wait for it runs out; the       *)
(* channel may report a timeout of its own.                                *)
(***************************************************************************)
Approve(c) ==
  /\ calls[c].at = "asking"
  /\ GoesTo(c, "cleared")
  /\ approved' = approved \cup {c}
  /\ UNCHANGED <<user, policy, sent>>

Deny(c) ==
  /\ calls[c].at = "asking"
  /\ EndsWith(c, "Auth")
  /\ UNCHANGED <<user, policy, sent, approved>>

(***************************************************************************)
(* Mutation of ApprovalTimeout: silence counts as consent.                 *)
(***************************************************************************)
ApprovalTimeoutSends(c) ==
  /\ calls[c].at = "asking"
  /\ GoesTo(c, "cleared")
  /\ UNCHANGED <<user, policy, sent, approved>>

(***************************************************************************)
(* Mutation of ApprovalTimeout: the wait has no limit.                     *)
(***************************************************************************)
ApprovalTimeoutNever(c) ==
  /\ calls[c].at = "asking" /\ c \in approved
  /\ EndsWith(c, "Network")
  /\ UNCHANGED <<user, policy, sent, approved>>

ApprovalTimeout(c) ==
  /\ calls[c].at = "asking"
  /\ EndsWith(c, "Network")
  /\ UNCHANGED <<user, policy, sent, approved>>

(***************************************************************************)
(* Mutation of Send: the key is read again when the gate opens.            *)
(***************************************************************************)
SendReadsAgain(c) ==
  LET key == secrets[calls[c].provider.ref]
  IN /\ calls[c].at = "cleared" /\ key # None
     /\ GoesTo(c, "waiting")
     /\ sent' = sent \cup {[caller |-> c, endpoint |-> calls[c].provider.endpoint,
                            key |-> key, stale |-> calls[c].stale]}
     /\ UNCHANGED <<user, policy, approved>>

(***************************************************************************)
(* The request goes out.  Only now does the alternative adapter find out   *)
(* about a key or a version that cannot be a header.                       *)
(***************************************************************************)
Unsendable(call) ==
  call.provider.kind = "anthropic" /\ (call.key \in BadKey \/ call.provider.flaw = "headers")

Send(c) ==
  /\ calls[c].at = "cleared" /\ ~Unsendable(calls[c])
  /\ GoesTo(c, "waiting")
  /\ sent' = sent \cup {[caller |-> c, endpoint |-> calls[c].provider.endpoint,
                         key |-> calls[c].key, stale |-> calls[c].stale]}
  /\ UNCHANGED <<user, policy, approved>>

SendFails(c) ==
  /\ calls[c].at = "cleared" /\ Unsendable(calls[c])
  /\ EndsWith(c, "InvalidRequest")
  /\ UNCHANGED <<user, policy, sent, approved>>

-----------------------------------------------------------------------------
(***************************************************************************)
(* The server.  It may never answer; there is no read timeout.  A failed   *)
(* response has its body read before it is reported.                       *)
(***************************************************************************)
Disconnect(c) ==
  /\ calls[c].at = "waiting"
  /\ EndsWith(c, "Network")
  /\ UNCHANGED <<user, policy, sent, approved>>

Success(status) == status \in 200..299

Respond(c, status) ==
  /\ calls[c].at = "waiting"
  /\ calls' = [calls EXCEPT ![c].status = status,
       ![c].at = IF ~Success(status) THEN "failing"
                 ELSE IF calls[c].what = "models" THEN "reading" ELSE "ended",
       ![c].outcome = IF Success(status) /\ calls[c].what = "chat" THEN "opened" ELSE None]
  /\ UNCHANGED <<user, policy, sent, approved>>

(***************************************************************************)
(* map_status and map_http_error.                                          *)
(***************************************************************************)
OpenAiError(status) ==
  CASE status \in {400, 404}             -> "InvalidRequest"
    [] status \in {401, 403}             -> "Auth"
    [] status = 408 \/ status \in 500..599 -> "Network"
    [] status = 429                      -> "RateLimited"
    [] OTHER                             -> "Other"

AnthropicError(status) ==
  CASE status = 400          -> "InvalidRequest"
    [] status \in {401, 403} -> "Auth"
    [] status = 429          -> "RateLimited"
    [] OTHER                 -> "ProviderError"

ReadError(c) ==
  /\ calls[c].at = "failing"
  /\ EndsWith(c, IF calls[c].provider.kind = "openai" THEN OpenAiError(calls[c].status)
             ELSE AnthropicError(calls[c].status))
  /\ UNCHANGED <<user, policy, sent, approved>>

(***************************************************************************)
(* The /models body: unreadable or not a list; and only after it has been  *)
(* fetched is the model filter compiled.                                   *)
(***************************************************************************)
ReadModels(c, wellFormed) ==
  /\ calls[c].at = "reading"
  /\ EndsWith(c, IF ~wellFormed THEN "ProviderError"
             ELSE IF calls[c].provider.flaw = "filter" THEN "InvalidRequest" ELSE "listed")
  /\ UNCHANGED <<user, policy, sent, approved>>

(***************************************************************************)
(* The caller drops the stream or the future, which takes the prompt, the  *)
(* request or the connection with it.                                      *)
(***************************************************************************)
Cancel(c) ==
  /\ calls[c].at \notin {"idle", "ended"}
  /\ EndsWith(c, "dropped")
  /\ UNCHANGED <<user, policy, sent, approved>>

-----------------------------------------------------------------------------
Advance(c) ==
  \/ Open(c) \/ NoKey(c)
  \/ Approve(c) \/ Deny(c) \/ ApprovalTimeout(c)
  \/ Send(c) \/ SendFails(c)

Next ==
  \/ \E config \in Config : Register(config)
  \/ \E id \in Id : RemoveProvider(id)
  \/ \E ref \in Ref, key \in Key \cup {None} : StoreKey(ref, key)
  \/ \E c \in Caller :
       \/ \E id \in Id, named \in Id \cup {"anthropic"}, conv \in Conversation,
            families \in Family : ChatStream(c, id, named, conv, families)
       \/ \E id \in Id : ListModels(c, id)
       \/ Advance(c)
       \/ Disconnect(c)
       \/ \E status \in Status : Respond(c, status)
       \/ ReadError(c)
       \/ \E wellFormed \in BOOLEAN : ReadModels(c, wellFormed)
       \/ Cancel(c)

(***************************************************************************)
(* The prompt's timer fires if nothing else happens, and a call that is    *)
(* polled goes on; the server owes nothing.                                *)
(***************************************************************************)
Fairness ==
  \A c \in Caller :
    WF_vars(Open(c) \/ NoKey(c)) /\ WF_vars(ApprovalTimeout(c)) /\ WF_vars(Send(c) \/ SendFails(c))
Spec == Init /\ [][Next]_vars /\ Fairness

-----------------------------------------------------------------------------
TypeOK ==
  /\ registry \in [Id -> Config \cup {None}] /\ secrets \in [Ref -> Key \cup {None}]
  /\ policy \in Policies /\ calls \in [Caller -> Call]
  /\ sent \subseteq [caller : Caller, endpoint : Endpoint, key : Key, stale : BOOLEAN]
  /\ paired \subseteq Endpoint \X (Key \cup {None}) /\ approved \subseteq Caller
  /\ edits \in 0..MaxEdits /\ rotations \in 0..MaxRotations

(***************************************************************************)
(* Nothing goes out without leave: for every request the policy allows its *)
(* endpoint, or the prompt shown for this very call was answered with      *)
(* approval before it timed out, and the policy does not block it.         *)
(* Whichever adapter, entry point and order of answers.                    *)
(***************************************************************************)
LeaveBeforeSend ==
  \A r \in sent :
    \/ Gate(r.endpoint) = "Allow"
    \/ Gate(r.endpoint) = "RequireApproval" /\ r.caller \in approved

(***************************************************************************)
(* A key goes only to an endpoint some configuration has brought it        *)
(* together with, however providers and keys are edited while calls wait   *)
(* for the user.  The exception is an adapter that was removed between     *)
(* chat_stream and its first poll: it reads the key stored under its       *)
(* reference then, which may be the successor's.                           *)
(***************************************************************************)
KeysStayHome == \A r \in sent : ~r.stale => <<r.endpoint, r.key>> \in paired

(***************************************************************************)
(* A prompt nobody answers does not pin a call: polled, it reaches the     *)
(* server or ends.                                                         *)
(***************************************************************************)
Underway(c) == calls[c].at \in {"called", "asking", "cleared"}

PromptsEnd ==
  \A c \in Caller : Underway(c) ~> ~Underway(c)
=============================================================================
