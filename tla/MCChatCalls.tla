----------------------------- MODULE MCChatCalls -----------------------------
(* Two users in one tenant, one of whom may come back with a new connection. *)
EXTENDS ChatCalls, TLC

CONSTANTS ann, bob, t1, s1, s2, s3

MCUserOf   == s1 :> ann @@ s2 :> bob @@ s3 :> bob
MCTenantOf == [s \in Socket |-> t1]
MCDirect   == {<<t1, {ann, bob}>>}
=============================================================================
