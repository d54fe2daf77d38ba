----------------------------- MODULE RoleAccess -----------------------------
(***************************************************************************)
(* What the roles of a member of a tenant add up to                        *)
(* (modules/rbac/abilities/abilities.service.ts and                        *)
(* common/guards/abilities.guard.ts), and how roles are given and taken    *)
(* away (modules/company-roles, modules/staff), a request being a look and *)
(* a write that two requests may interleave.                               *)
(*                                                                         *)
(* roles maps a name to [permissions, branch]; an assignment is            *)
(* [id, user, role, branch]; "" is no branch, EveryBranch no limit.        *)
(***************************************************************************)
EXTENDS Integers, FiniteSets, Sequences, TLC

EveryBranch == {"*"}
OfUser(assigned, u)  == {a \in assigned : a.user = u}
IsAdmin(a)           == a.role = "COMPANY_ADMIN"

\* resolveContext: the branch of the role itself is listed and not counted.
Resolved(roles, assigned, u) ==
    LET own == OfUser(assigned, u) IN
    [admin       |-> \E a \in own : IsAdmin(a),
     permissions |-> UNION {roles[a.role].permissions : a \in own},
     branches    |-> IF \E a \in own : IsAdmin(a) \/ a.branch = "" THEN EveryBranch ELSE {a.branch : a \in own},
     listed      |-> {<<a.role, IF a.branch # "" THEN a.branch ELSE roles[a.role].branch>> : a \in own}]

\* AbilitiesGuard.
MayCall(abilities, all, any) ==
    \/ abilities.admin
    \/ all \subseteq abilities.permissions /\ (any = {} \/ any \cap abilities.permissions # {})

-----------------------------------------------------------------------------
\* assign and unassign, by what the look finds and what the write then does.  The
\* index on assignments does not hold two rows of no branch to be the same.

Same(a, call) == a.user = call.user /\ a.role = call.role /\ a.branch = call.branch
Accepted(rows, call) ==
    IF call.op = "assign"
    THEN /\ call.role # "COMPANY_ADMIN"
         /\ call.role = "BRANCH_ADMIN" => call.branch # ""
         /\ \A a \in rows : ~Same(a, call)
    ELSE /\ \E a \in rows : a.id = call.id
         /\ (\E a \in rows : a.id = call.id /\ IsAdmin(a)) => Cardinality({a \in rows : IsAdmin(a)}) > 1

Carried(rows, call, newId) ==
    IF call.op = "unassign" THEN {a \in rows : a.id # call.id}
    ELSE IF call.branch # "" /\ \E a \in rows : Same(a, call) THEN rows
    ELSE rows \cup {[id |-> newId, user |-> call.user, role |-> call.role, branch |-> call.branch]}

\* Two calls whose looks and writes come in an order of <<1, 1, 2, 2>>.
RowsLeft(rows, calls, order) ==
    LET isLook(i) == \A j \in 1 .. i - 1 : order[j] # order[i]
        lookAt(i) == CHOOSE j \in 1 .. i - 1 : order[j] = order[i]
        after[i \in 0 .. 4] ==
            IF i = 0 THEN rows
            ELSE IF isLook(i) \/ ~Accepted(after[lookAt(i) - 1], calls[order[i]]) THEN after[i - 1]
            ELSE Carried(after[i - 1], calls[order[i]], 10 + order[i])
    IN  after[4]

\* assignRoles of the staff service: whatever roles are given, the user's own role
\* is written anew, and only BRANCH_ADMIN is tied to the branch.
StaffAccepts(given, branch) == "COMPANY_ADMIN" \notin given /\ ("BRANCH_ADMIN" \in given => branch # "")
StaffCall(u, role, branch)  == [user |-> u, role |-> role, branch |-> IF role = "BRANCH_ADMIN" THEN branch ELSE ""]
StaffAssigned(rows, u, given, branch, newId) ==
    LET missing == {r \in given : \A a \in rows : ~Same(a, StaffCall(u, r, branch))} IN
    [userRole |-> IF "BRANCH_ADMIN" \in given THEN "BRANCH_ADMIN" ELSE "USER",
     rows     |-> rows \cup {[id |-> newId[r], user |-> u, role |-> r, branch |-> StaffCall(u, r, branch).branch] :
                                r \in missing}]

-----------------------------------------------------------------------------
\* Two administrators, a branch administrator, a role of a branch and one of none.

Roles == [r \in {"COMPANY_ADMIN", "BRANCH_ADMIN", "clerk", "auditor"} |->
    [permissions |-> CASE r = "COMPANY_ADMIN" -> {"p", "q"} [] r = "BRANCH_ADMIN" -> {"p"}
                       [] r = "clerk" -> {"q"} [] r = "auditor" -> {},
     branch |-> IF r = "clerk" THEN "b1" ELSE ""]]
People == {"ann", "bob"}
Assignable == [user : People, role : DOMAIN Roles, branch : {"", "b1", "b2"}]
Assignments == {{[id |-> i, user |-> f[i].user, role |-> f[i].role, branch |-> f[i].branch] : i \in 1 .. 2} :
                    f \in [1 .. 2 -> Assignable]}
RoleCalls == {[op |-> "assign", user |-> u, role |-> r, branch |-> b] :
                    u \in People, r \in {"BRANCH_ADMIN", "clerk"}, b \in {"", "b1"}}
                \cup {[op |-> "unassign", id |-> i] : i \in 1 .. 2}
Admins(rows) == {a \in rows : IsAdmin(a)}
OneAfterTheOther == {<<1, 1, 2, 2>>, <<2, 2, 1, 1>>}
Interleaved      == {<<1, 2, 1, 2>>, <<1, 2, 2, 1>>, <<2, 1, 1, 2>>, <<2, 1, 2, 1>>}

\* One more assignment takes away no branch, no permission and no call.
ASSUME AssignmentOnlyAdds ==
    \A rows \in Assignments, more \in Assignable, any \in SUBSET {"p", "q"} :
        LET before == Resolved(Roles, rows, "ann")
            after  == Resolved(Roles, rows \cup {[id |-> 3, user |-> more.user, role |-> more.role, branch |-> more.branch]}, "ann")
        IN  /\ after.branches = EveryBranch \/ (before.branches # EveryBranch /\ before.branches \subseteq after.branches)
            /\ before.permissions \subseteq after.permissions
            /\ MayCall(before, {"p"}, any) => MayCall(after, {"p"}, any)

\* "Cannot remove the last company administrator": holds of calls one after the
\* other, and not of two that both count before either removes.
ASSUME InTurnAnAdminStays ==
    \A rows \in Assignments, c, d \in RoleCalls, order \in OneAfterTheOther :
        Admins(rows) # {} => Admins(RowsLeft(rows, <<c, d>>, order)) # {}
ASSUME OverlapRemovesTheLast ==
    \E rows \in Assignments, c, d \in RoleCalls, order \in Interleaved :
        Cardinality(Admins(rows)) = 2 /\ Admins(RowsLeft(rows, <<c, d>>, order)) = {}

\* A role of no branch given twice at a time is there twice, and taking one away
\* changes nothing; one of a branch is never there twice.
ASSUME TwiceIsNotTakenByOne ==
    \A order \in Interleaved, branch \in {"", "b1"} :
        LET call == [op |-> "assign", user |-> "ann", role |-> "clerk", branch |-> branch]
            rows == RowsLeft({}, <<call, call>>, order)
        IN  /\ Cardinality(rows) = (IF branch = "" THEN 2 ELSE 1)
            /\ \A a \in rows : (Resolved(Roles, rows \ {a}, "ann") = Resolved(Roles, rows, "ann")) <=> branch = ""

\* The role of a branch, assigned to no branch, is listed under its branch and
\* counts for every one.
ASSUME RoleOfABranchCountsForAll ==
    \A rows \in Assignments : \A a \in rows :
        a.role = "clerk" /\ a.branch = "" =>
            /\ <<"clerk", "b1">> \in Resolved(Roles, rows, a.user).listed
            /\ Resolved(Roles, rows, a.user).branches = EveryBranch

\* A branch administrator who is given a further role over the staff page stays one
\* by assignment and not by the role of the user, and is no longer tied to a branch.
ASSUME FurtherRoleUnties ==
    \A rows \in Assignments, given \in {{"auditor"}, {"clerk"}, {"auditor", "clerk"}}, branch \in {"", "b1"} :
        LET after == StaffAssigned(rows, "ann", given, branch, "auditor" :> 4 @@ "clerk" :> 5) IN
        StaffAccepts(given, branch) /\ (\E a \in rows : a.user = "ann" /\ a.role = "BRANCH_ADMIN") =>
            /\ after.userRole = "USER"
            /\ \E a \in after.rows : a.user = "ann" /\ a.role = "BRANCH_ADMIN"
            /\ Resolved(Roles, after.rows, "ann").branches = EveryBranch
=============================================================================
