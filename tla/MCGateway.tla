----------------------------- MODULE MCGateway -----------------------------
(***************************************************************************)
(* An instance of Gateway for TLC: two requests that may share a          *)
(* conversation, a tenant that a reload gives narrower limits and one that *)
(* it locks out, and two configurations that differ in the rules, in the   *)
(* policy and in the egress guard.                                         *)
(***************************************************************************)
EXTENDS Gateway

CONSTANTS r1, r2, s1, s2, acme, globex, host, card, old, new, None

MCRequests == {r1, r2}
MCSessionIds == {s1, s2}
MCTenants == {acme, globex}
MCValues == {host, card}
MCRuleSets == {old, new}
MCEmbedders == {"cloud"}

(* A host is internal; a card is personal data only the new rules detect.  *)
MCClass ==
    [r \in MCRuleSets |->
        [v \in MCValues |-> IF v = host THEN 1 ELSE IF r = new THEN 2 ELSE 0]]

Standard == [cloudMax |-> 1, denyAbove |-> 4, fallback |-> TRUE]
Narrow == [cloudMax |-> 0, denyAbove |-> 1, fallback |-> TRUE]

Before == [keys |-> {acme, globex},
           global |-> [rules |-> old, policy |-> Standard],
           tenants |-> <<>>, blocks |-> FALSE]
After == [keys |-> {acme},
          global |-> [rules |-> new, policy |-> Standard],
          tenants |-> [t \in {acme} |-> [rules |-> new, policy |-> Narrow]],
          blocks |-> TRUE]

MCConfigs == {Before, After}

Ask(tenant, sid, parts, mode) ==
    [tenant |-> tenant, sid |-> sid, parts |-> parts, mode |-> mode]

ask == Ask(acme, s1, <<host, card>>, "blocking")
again == Ask(acme, s1, <<host>>, "blocking")
stream == Ask(globex, s1, <<card>>, "stream")
elsewhere == [stream EXCEPT !.sid = s2]
embed == Ask(globex, None, <<card>>, "embed")

Pair(a, b) == [r \in MCRequests |-> IF r = r1 THEN a ELSE b]

(* The same question twice, once such that no reload changes its key; a    *)
(* question and another tenant's stream in one conversation; one question  *)
(* streamed in two conversations, of which the store holds one; an         *)
(* embedding on a session of its own.                                      *)
MCWorkloads ==
    {Pair(ask, ask), Pair(again, again), Pair(ask, stream), Pair(stream, elsewhere),
     Pair(embed, stream)}

(* For the reload run: every mode, each on a session of its own.           *)
MCOneOfEach ==
    {Pair([ask EXCEPT !.sid = None], [stream EXCEPT !.sid = None]),
     Pair(embed, [stream EXCEPT !.sid = None])}
=============================================================================
