------------------------------- MODULE Memos --------------------------------
(***************************************************************************)
(* Who may read a memo and who is told of it (modules/memos/               *)
(* memos.service.ts), as functions from a memo to the members of its       *)
(* tenant.  A member stands for the records a user has: the branches,      *)
(* departments and groups of the active ones.                              *)
(***************************************************************************)
EXTENDS Integers, FiniteSets

\* Shared of two sets: `some` and `in` of the queries.
Meets(a, b) == a \cap b # {}

\* A company administrator, or a holder of memo.manage.
MayManage(memo, u) == u.manager \/ memo.creator = u.id

\* Whom the audience names, apart from the branch the memo belongs to.
Addressed(memo, u) ==
    \/ memo.all
    \/ u.id \in memo.users
    \/ Meets(memo.departments, u.departments)
    \/ Meets(memo.branches, u.branches)
    \/ Meets(memo.groups, u.groups)

\* isVisible, by which list, getOne and markRead choose.
IsVisible(memo, u) ==
    \/ MayManage(memo, u)
    \/ /\ memo.published
       /\ memo.branch \in {""} \cup u.branches
       /\ Addressed(memo, u)

\* audienceMemberIds: one query by group, or else by branch, or else by the branch
\* of the memo; none of them when there is nothing to filter by.
AudienceMembers(memo, members) ==
    {u.id : u \in {u \in members :
        \/ u.id \in memo.users
        \/ Meets(memo.departments, u.departments)
        \/ CASE memo.groups # {}   -> Meets(memo.groups, u.groups)
             [] memo.groups = {} /\ memo.branches # {} -> Meets(memo.branches, u.branches)
             [] memo.groups = {} /\ memo.branches = {} -> memo.branch \in u.branches}}

\* create (an audience that is not given is everybody) announces nothing, also
\* when it publishes; publish does, each time it is asked.  A change of a memo
\* that is out replaces its audience and announces nothing.
NoAudience == [all |-> FALSE, users |-> {}, departments |-> {}, branches |-> {}, groups |-> {}]
MemoCreated(creator, branch, audience, publish) ==
    [creator |-> creator, branch |-> branch, published |-> publish,
     all |-> audience.all, users |-> audience.users, departments |-> audience.departments,
     branches |-> audience.branches, groups |-> audience.groups]
MemoPublished(memo) == [memo EXCEPT !.published = TRUE]
MemoUpdated(memo, branch, audience) ==
    MemoCreated(memo.creator, branch, audience, memo.published)

-----------------------------------------------------------------------------
\* Two branches, a department in both and a group; every audience.

Person(id, branch, department, group, manager) ==
    [id |-> id, branches |-> branch, departments |-> department, groups |-> group, manager |-> manager]
Members == {Person("ann", {"b1"}, {"d"}, {}, FALSE), Person("bob", {"b2"}, {"d"}, {"g"}, FALSE),
            Person("cid", {"b1", "b2"}, {}, {"g"}, FALSE), Person("dee", {"b2"}, {}, {}, FALSE),
            Person("eve", {}, {}, {}, TRUE)}
Audiences == [all : BOOLEAN, users : SUBSET {"ann", "dee"}, departments : SUBSET {"d"},
              branches : SUBSET {"b1", "b2"}, groups : SUBSET {"g"}]
Drafts == {MemoCreated("eve", branch, audience, FALSE) : branch \in {"", "b1", "b2"}, audience \in Audiences}

Readers(memo) == {u.id : u \in {u \in Members : IsVisible(memo, u)}}
Told(memo)    == AudienceMembers(MemoPublished(memo), Members)

\* A memo of no branch and not for everybody is announced to those it is addressed
\* to and to nobody else, unless it names both groups and branches.
ASSUME AnnouncedToItsReaders ==
    \A memo \in Drafts :
        memo.branch = "" /\ ~memo.all /\ (memo.groups = {} \/ memo.branches = {}) =>
            Told(memo) \ {"eve"} = Readers(MemoPublished(memo)) \ {"eve"}

\* The announcement and the reading rule part in three ways: a memo for everybody
\* that names nobody is announced to nobody; groups hide the branches beside them;
\* and the whole branch of a memo is told of one that only some of it may read.
ASSUME EverybodyIsNobody ==
    \A branch \in {"", "b1"} :
        LET memo == MemoCreated("eve", branch, [NoAudience EXCEPT !.all = TRUE], FALSE) IN
        /\ branch = "" => Told(memo) = {} /\ Readers(MemoPublished(memo)) = {u.id : u \in Members}
        /\ branch = "b1" => Told(memo) = {"ann", "cid"}

ASSUME GroupsHideBranches ==
    \E memo \in Drafts : /\ memo.branch = "" /\ ~memo.all
                        /\ ~(Readers(MemoPublished(memo)) \ {"eve"} \subseteq Told(memo))

ASSUME ToldOfWhatOneCannotRead ==
    \E memo \in Drafts : memo.branch # "" /\ memo.users # {} /\ ~(Told(memo) \subseteq Readers(MemoPublished(memo)))

\* Publishing takes a memo from nobody; narrowing the audience of one that is out
\* takes it from those who were told of it.
ASSUME PublishingOnlyShows == \A memo \in Drafts : Readers(memo) \subseteq Readers(MemoPublished(memo))
ASSUME ToldAndThenShutOut ==
    \E memo \in Drafts, audience \in Audiences :
        LET after == MemoUpdated(MemoPublished(memo), memo.branch, audience) IN
        ~(Told(memo) \cap Readers(MemoPublished(memo)) \subseteq Readers(after))
=============================================================================
