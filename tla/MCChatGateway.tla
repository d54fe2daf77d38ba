---------------------------- MODULE MCChatGateway ----------------------------
(* Small instances of ChatGateway, and the facts about groups of the chat. *)
EXTENDS ChatGateway, ChatGroups, TLC

CONSTANTS ann, bob, cy, t1, s1, s2, s3, s4

\* ann connects twice (two tabs), bob and cy once.
MCUserOf == s1 :> ann @@ s2 :> bob @@ s3 :> cy @@ s4 :> ann
PairUserOf == s1 :> ann @@ s2 :> bob @@ s4 :> ann
OneTenant == [s \in Socket |-> t1]
MCDirect == {d \in Tenant \X {{ann, bob}, {ann, cy}, {bob, cy}} : d[2] \subseteq User}
CallSymmetry == Permutations(CallId)
=============================================================================
