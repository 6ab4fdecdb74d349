------------------------------ MODULE MCProviders ------------------------------
(***************************************************************************)
(* The provider layer for model checking.                                  *)
(***************************************************************************)
EXTENDS Providers

CONSTANTS k1, bad \* a key, and one that is no header value

(***************************************************************************)
(* Providers under one identifier, good and with one thing wrong; a policy *)
(* that asks, and one that blocks all but one host.                        *)
(***************************************************************************)
Host(name) == [host |-> <<name, ".", "com">>, port |-> "443"]
Provider(kind, ref, host, flaw) ==
  [id |-> "main", kind |-> kind, ref |-> ref, endpoint |-> Host(host), flaw |-> flaw]

MCConfig ==
  {Provider("openai", "r1", "api", "none"), Provider("anthropic", "r2", "gate", "none"),
   Provider("openai", "r1", "api", "filter"), Provider("openai", "r1", "api", "headers"),
   Provider("anthropic", "r1", "api", "url")}

MCPolicies ==
  {Sandbox!WithTrustMode("Guarded", {}),
   [Sandbox!WithTrustMode("Fast", {Sandbox!Parse(<<"api", ".", "com", ":", "443">>)})
      EXCEPT !.permissions.network = "Block"]}

Says(role, kind) ==
  [prompt |-> <<>>, turns |-> <<[role |-> role, parts |-> <<[kind |-> kind, at |-> <<1, 1>>]>>]>>]
MCConversation == {Says("User", "text"), Says("User", "image"), Says("Tool", "text")}

(***************************************************************************)
(* Two calls, one with an escaped quote and a brace in a string and one    *)
(* nested; a malformed object, and prose with a quote and a stray brace.   *)
(***************************************************************************)
MCCalls == {<<"{", "q", "}", "b", "q", "q", "}">>, <<"{", "{", "}", "x", "}">>}
MCOthers == {<<"{", "x", "}">>, <<"x", "q", "}">>}

(***************************************************************************)
(* Conversations of two turns of at most two parts.                        *)
(***************************************************************************)
Kinds == UNION {[1..n -> Requests!PartKind] : n \in 0..2}
Prompts == {<<>>, <<"text">>, <<"blank">>}
Parts(kinds, turn) == [i \in DOMAIN kinds |-> [kind |-> kinds[i], at |-> <<turn, i>>]]
Turn(role, kinds, turn) == [role |-> role, parts |-> Parts(kinds, turn)]
MCDialogues ==
  {[prompt |-> Parts(prompt, 0), turns |-> <<Turn(r1, k, 1), Turn(r2, l, 2)>>] :
     prompt \in Prompts, r1 \in Requests!Role, r2 \in Requests!Role, k \in Kinds, l \in Kinds}
=============================================================================
