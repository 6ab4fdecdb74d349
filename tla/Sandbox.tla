------------------------------ MODULE Sandbox ------------------------------
(***************************************************************************)
(* The sandbox policy (shared/src/sandbox.rs): trust modes, the permission *)
(* levels they stand for, the patterns of the network allowlist, and the   *)
(* gate's decisions.  A host and the text of a pattern are sequences of    *)
(* tokens: labels, ".", ":", "*" and decimal numbers.  The copy of         *)
(* prompts and refusals is left out.                                       *)
(***************************************************************************)
EXTENDS Integers, Sequences, SequencesExt

CONSTANT Port \* the numbers that are a u16

TrustMode   == {"Guarded", "Fast", "Yolo"}
SafetyClass == {"Safe", "RequiresApproval", "Destructive"}
Operation   == {"read", "write", "terminal", "network"}
AccessLevel == {"Allow", "RequireApproval", "Block"}

(***************************************************************************)
(* TrustMode::approval_for and execution_style.  enforces_blocklist is     *)
(* false in every mode.                                                    *)
(***************************************************************************)
ApprovalFor(mode, class) ==
  CASE mode = "Yolo" -> "Never"
    [] mode = "Guarded" -> IF class = "Safe" THEN "OnDestructive" ELSE "Always"
    [] mode = "Fast" -> [Safe |-> "Never", RequiresApproval |-> "OnDestructive",
                         Destructive |-> "Always"][class]

ExecutionStyle(mode) == IF mode = "Guarded" THEN "Interactive" ELSE "Batched"

(***************************************************************************)
(* PermissionPolicy::from_trust_mode.                                      *)
(***************************************************************************)
FromTrustMode(mode) ==
  [op \in Operation |->
     IF \/ mode = "Yolo" \/ op = "read"
        \/ mode = "Fast" /\ op = "write"
     THEN "Allow" ELSE "RequireApproval"]

(***************************************************************************)
(* NetworkPattern::parse: the port is what follows the last colon, any     *)
(* port without one; the host's errors come before the port's.             *)
(***************************************************************************)
Colons(text) == {i \in DOMAIN text : text[i] = ":"}

ParseHost(text) ==
  IF text = <<"*">> THEN [kind |-> "Any", is |-> <<>>]
  ELSE IF IsPrefix(<<"*", ".">>, text)
  THEN [kind |-> IF Len(text) = 2 THEN "error" ELSE "Suffix", is |-> SubSeq(text, 3, Len(text))]
  ELSE [kind |-> IF text = <<>> THEN "error" ELSE "Exact", is |-> text]

ParsePort(text) ==
  IF text = <<"*">> THEN "Any"
  ELSE IF Len(text) = 1 /\ text[1] \in Port THEN text[1] ELSE "error"

Parse(text) ==
  IF Colons(text) = {} THEN [host |-> ParseHost(text), port |-> "Any"]
  ELSE LET last == CHOOSE i \in Colons(text) : \A j \in Colons(text) : j <= i
       IN [host |-> ParseHost(SubSeq(text, 1, last - 1)),
           port |-> ParsePort(SubSeq(text, last + 1, Len(text)))]

IsPattern(pattern) == pattern.host.kind # "error" /\ pattern.port # "error"

(***************************************************************************)
(* Mutation of Matches: a suffix pattern matches its bare suffix too.      *)
(***************************************************************************)
MatchesApex(pattern, host, port) ==
  /\ \/ pattern.host.kind = "Any"
     \/ pattern.host.kind = "Exact" /\ pattern.host.is = host
     \/ pattern.host.kind = "Suffix" /\ IsSuffix(pattern.host.is, host)
  /\ pattern.port \in {"Any", port}

(***************************************************************************)
(* NetworkPattern::matches: a suffix pattern wants a strict subdomain.     *)
(***************************************************************************)
Matches(pattern, host, port) ==
  /\ \/ pattern.host.kind = "Any"
     \/ pattern.host.kind = "Exact" /\ pattern.host.is = host
     \/ /\ pattern.host.kind = "Suffix"
        /\ IsStrictSuffix(<<".">> \o pattern.host.is, host)
  /\ pattern.port \in {"Any", port}

(***************************************************************************)
(* SandboxPolicy::check_read, check_write, check_terminal and              *)
(* check_network: the level of the operation, unless the network allowlist *)
(* has a matching pattern.  The path and the command are not looked at.    *)
(***************************************************************************)
WithTrustMode(mode, allowlist) ==
  [trust_mode |-> mode, permissions |-> FromTrustMode(mode), network_allowlist |-> allowlist]

Check(policy, op) == policy.permissions[op]

CheckNetwork(policy, host, port) ==
  IF \E pattern \in policy.network_allowlist : Matches(pattern, host, port)
  THEN "Allow" ELSE Check(policy, "network")

-----------------------------------------------------------------------------
(***************************************************************************)
(* What a pattern's text lets through, said from the host's side: the host *)
(* itself, "*", or "*." and a proper tail of the host after one of its     *)
(* dots; with no port, "*" or the port itself.  Parse and Matches together *)
(* accept exactly these spellings; a text that is no pattern lets nothing  *)
(* through.                                                                *)
(***************************************************************************)
HostSpellings(host) ==
  {host, <<"*">>} \cup
  {<<"*">> \o SubSeq(host, i, Len(host)) : i \in {j \in 2..(Len(host) - 1) : host[j] = "."}}

Spellings(host, port) ==
  UNION {{h, h \o <<":", "*">>, h \o <<":", port>>} : h \in HostSpellings(host)}

MeansItsSpellings(text, host, port) ==
  (IsPattern(Parse(text)) /\ Matches(Parse(text), host, port)) = (text \in Spellings(host, port))

(***************************************************************************)
(* A more trusting mode never asks where a stricter one does not: neither  *)
(* by permission level nor by a tool's safety class.                       *)
(***************************************************************************)
Strictness(level) ==
  [Allow |-> 0, RequireApproval |-> 1, Block |-> 2,
   Never |-> 0, OnDestructive |-> 1, Always |-> 2][level]

TrustIsMonotone(stricter, looser, class, op) ==
  /\ Strictness(FromTrustMode(looser)[op]) <= Strictness(FromTrustMode(stricter)[op])
  /\ Strictness(ApprovalFor(looser, class)) <= Strictness(ApprovalFor(stricter, class))
=============================================================================
