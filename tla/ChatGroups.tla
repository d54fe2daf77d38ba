----------------------------- MODULE ChatGroups -----------------------------
(***************************************************************************)
(* The conversations of the chat (modules/chat/chat.service.ts and its     *)
(* controller): who is in a group and who manages it, the one conversation *)
(* of two users, a group's picture, and whom a message notifies.  A call   *)
(* reads, writes and answers in steps that other calls come between.       *)
(***************************************************************************)
EXTENDS Integers, Sequences, FiniteSets, SequencesExt

\* A group: whether its row exists, who created it, who is in it, and who of them has
\* the role ADMIN.  A new one has its creator for ADMIN.
NewGroup(u, others) == [exists |-> TRUE, owner |-> u, members |-> {u} \cup others, admins |-> {u}]
CanManage(g, u) == u = g.owner \/ u \in g.admins

\* What a call checks before it changes anything.
MayLeave(g, c)  == c.op = "leave" /\ c.by \in g.members
MayAdd(g, c)    == c.op = "add" /\ CanManage(g, c.by)
MayRemove(g, c) == c.op = "remove" /\ CanManage(g, c.by) /\ c.who # g.owner
MaySetRole(g, c) == c.op \in {"promote", "demote"} /\ CanManage(g, c.by) /\ c.who # g.owner /\ c.who \in g.members
GroupMay(g, c)  == g.exists /\ (MayLeave(g, c) \/ MayAdd(g, c) \/ MayRemove(g, c) \/ MaySetRole(g, c))

\* What it changes, and whether the rows it changes are still there.
Subject(c) == IF c.op = "leave" THEN c.by ELSE c.who
CanChange(g, c) == IF c.op = "add" THEN g.exists ELSE Subject(c) \in g.members
Changed(g, c) ==
    CASE c.op = "add"     -> [g EXCEPT !.members = @ \cup {c.who}]
      [] c.op \in {"leave", "remove"} -> [g EXCEPT !.members = @ \ {Subject(c)}, !.admins = @ \ {Subject(c)}]
      [] c.op = "promote" -> [g EXCEPT !.admins = @ \cup {c.who}]
      [] c.op = "demote"  -> [g EXCEPT !.admins = @ \ {c.who}]

\* The steps of call k: the checks, which for addMembers also find out who is missing;
\* the change; then a leaver counts who remains and another reads the group, which
\* only a member may, and tells the others; the last to leave deletes the group.
GroupLook(s, k, c) ==
    [s EXCEPT !.at[k] = IF ~GroupMay(s.group, c) THEN "refused"
                        ELSE IF c.op = "add" /\ c.who \in s.group.members THEN "changed" ELSE "changing"]
GroupChange(s, k, c) ==
    IF CanChange(s.group, c) THEN [s EXCEPT !.at[k] = "changed", !.group = Changed(@, c)]
    ELSE [s EXCEPT !.at[k] = "failed"]
GroupAnswer(s, k, c) ==
    IF c.op = "leave" THEN [s EXCEPT !.at[k] = IF s.group.members = {} THEN "closing" ELSE "done"]
    ELSE IF c.by \notin s.group.members THEN [s EXCEPT !.at[k] = "forbidden"]
    ELSE [s EXCEPT !.at[k] = "done", !.told[k] = s.group.members \ {c.by}]
GroupClose(s, k) ==
    IF s.group.exists THEN [s EXCEPT !.at[k] = "done", !.group.exists = FALSE, !.group.members = {}, !.group.admins = {}]
    ELSE [s EXCEPT !.at[k] = "failed"]

\* The group after calls whose steps come in an order.
GroupLeft(start, calls, order) ==
    LET after[i \in 0 .. Len(order)] ==
            IF i = 0 THEN [group |-> start, at |-> [k \in DOMAIN calls |-> "sent"], told |-> [k \in DOMAIN calls |-> {}]]
            ELSE LET s == after[i - 1]
                     k == order[i]
                     c == calls[k]
                 IN  CASE s.at[k] = "sent"     -> GroupLook(s, k, c)
                       [] s.at[k] = "changing" -> GroupChange(s, k, c)
                       [] s.at[k] = "changed"  -> GroupAnswer(s, k, c)
                       [] s.at[k] = "closing"  -> GroupClose(s, k)
                       [] OTHER -> s
    IN  after[Len(order)]

\* The conversation each of several calls for the same two users is given, numbered as
\* they are created: a call looks for one, and creates one when it found none.
DirectGiven(calls, order) ==
    LET after[i \in 0 .. Len(order)] ==
            IF i = 0 THEN [rows |-> 0, found |-> [k \in 1 .. calls |-> -1]]
            ELSE LET s == after[i - 1]
                     k == order[i]
                 IN  IF s.found[k] = -1 THEN [s EXCEPT !.found[k] = IF s.rows = 0 THEN 0 ELSE 1]
                     ELSE IF s.found[k] = 0 THEN [rows |-> s.rows + 1, found |-> [s.found EXCEPT ![k] = s.rows + 1]]
                     ELSE s
    IN  after[Len(order)]

\* The picture of a group after calls that set or clear it, call k with document k and
\* document 0 for none: it notes the picture there is and stores its own, points the
\* group at it, and deletes the one it noted.
PictureLeft(start, calls, order) ==
    LET after[i \in 0 .. Len(order)] ==
            IF i = 0 THEN [image |-> start, docs |-> {start} \ {0}, was |-> [k \in DOMAIN calls |-> -1],
                           at |-> [k \in DOMAIN calls |-> "sent"]]
            ELSE LET s == after[i - 1]
                     k == order[i]
                 IN  CASE s.at[k] = "sent" /\ calls[k] = "full" -> [s EXCEPT !.at[k] = "refused"]
                       [] s.at[k] = "sent" /\ calls[k] = "set" ->
                            [s EXCEPT !.at[k] = "stored", !.was[k] = s.image, !.docs = @ \cup {k}]
                       [] s.at[k] = "sent" /\ calls[k] = "clear" ->
                            [s EXCEPT !.at[k] = IF s.image = 0 THEN "done" ELSE "stored", !.was[k] = s.image]
                       [] s.at[k] = "stored" -> [s EXCEPT !.at[k] = "shown", !.image = IF calls[k] = "set" THEN k ELSE 0]
                       [] s.at[k] = "shown"  -> [s EXCEPT !.at[k] = "done", !.docs = @ \ {s.was[k]},
                                                          !.image = IF @ = s.was[k] THEN 0 ELSE @]
                       [] OTHER -> s
    IN  after[Len(order)]

\* Those a text mentions, and those a message notifies.  A text is "@everyone" or what
\* follows an "@"; a name is mentioned when that begins with it.
Everyone == << "everyone" >>
Mentioned(text, name) == IF text = Everyone THEN DOMAIN name
                         ELSE IF text = << >> THEN {}
                         ELSE {m \in DOMAIN name : IsPrefix(name[m], text)}
Notified(text, name, sender, muted) == {m \in DOMAIN name \ {sender} : m \in Mentioned(text, name) \/ m \notin muted}

-----------------------------------------------------------------------------
\* Groups of up to three users, created by 1; one call, and two in every order of
\* their steps that begins with the first's.

Group4 == {NewGroup(1, {2, 3}), [NewGroup(1, {2}) EXCEPT !.admins = {1, 2}],
           [NewGroup(1, {2}) EXCEPT !.members = {2}, !.admins = {}],
           [NewGroup(1, {2}) EXCEPT !.members = {2, 3}, !.admins = {2}]}
GroupCall == [op : {"leave"}, by : 1 .. 3, who : {0}] \cup [op : {"add", "remove", "promote", "demote"}, by : 1 .. 3, who : 1 .. 3]
Steps4 == {o \in [1 .. 8 -> 1 .. 2] : o[1] = 1 /\ Cardinality({i \in 1 .. 8 : o[i] = 1}) = 4}
Serial == << 1, 1, 1, 1, 2, 2, 2, 2 >>
OneCall(g, c) == GroupLeft(g, << c >>, << 1, 1, 1, 1 >>)

\* A single call changes nothing, or answers and tells everyone else in the group,
\* or its caller is not in the group after the change.
ASSUME OneCallAnswers ==
    \A g \in Group4, c \in GroupCall :
        LET s == OneCall(g, c) IN
        /\ s.at[1] \in {"refused", "failed"} => s.group = g
        /\ s.at[1] = "forbidden" => c.by \notin s.group.members
        /\ s.at[1] = "done" /\ c.op # "leave" => s.group = Changed(g, c) /\ s.told[1] = s.group.members \ {c.by}
        /\ s.at[1] = "failed" => c.op = "remove" /\ c.who \notin g.members
        /\ s.at[1] \in {"refused", "failed", "forbidden", "done"}

\* However two calls overlap, the creator of a group is in it until he leaves, only
\* members have a role, nobody is in a group that is gone, and it is never gone with
\* its creator in it.
ASSUME CreatorStays ==
    \A g \in Group4, calls \in [1 .. 2 -> GroupCall], order \in Steps4 :
        LET s == GroupLeft(g, calls, order) IN
        /\ 1 \in g.members /\ (\A k \in 1 .. 2 : calls[k].op = "leave" => calls[k].by # 1)
               => 1 \in s.group.members /\ s.group.exists
        /\ s.group.admins \subseteq s.group.members
        /\ ~s.group.exists => s.group.members = {}

\* They leave it as the one after the other would, in one of the two turns, unless
\* somebody leaves or gives himself a role.
ASSUME OverlapsAreTurns ==
    \A g \in Group4, calls \in [1 .. 2 -> GroupCall], order \in Steps4 :
        \/ \E k \in 1 .. 2 : \/ calls[k].op = "leave"
                             \/ calls[k].op = "promote" /\ calls[k].who = calls[k].by
        \/ GroupLeft(g, calls, order).group \in {GroupLeft(g, calls, Serial).group,
                                                 GroupLeft(g, calls, [i \in 1 .. 8 |-> 3 - Serial[i]]).group}

\* An administrator who is demoted while he gives himself the role keeps it; a group
\* outlives its last member who is removed, not leaving; and somebody is added, and
\* the caller told so, to a group that is then deleted with him in it.
ASSUME DemotedKeepsRole ==
    \E g \in Group4, calls \in [1 .. 2 -> GroupCall], order \in Steps4 :
        LET s == GroupLeft(g, calls, order) IN
        /\ calls[2].op = "demote" /\ calls[2].by = 1 /\ s.at = << "done", "done" >>
        /\ calls[1].by = calls[2].who /\ calls[2].who \in s.group.admins
ASSUME EmptyGroupStays ==
    \E g \in Group4, c \in GroupCall :
        LET s == OneCall(g, c) IN s.at[1] = "forbidden" /\ s.group.exists /\ s.group.members = {}
ASSUME AddedToTheGone ==
    \E calls \in [1 .. 2 -> GroupCall], order \in Steps4 :
        LET s == GroupLeft([NewGroup(1, {2}) EXCEPT !.members = {2}, !.admins = {}], calls, order) IN
        s.at = << "done", "done" >> /\ calls[2].op = "add" /\ ~s.group.exists

\* Calls in turn are given one conversation, overlapping ones may be given one each.
ASSUME DirectIsFound ==
    /\ DirectGiven(3, << 1, 1, 2, 2, 3, 3 >>) = [rows |-> 1, found |-> [k \in 1 .. 3 |-> 1]]
    /\ DirectGiven(3, << 1, 2, 1, 2, 3, 3 >>) = [rows |-> 2, found |-> << 1, 2, 1 >>]

\* In turn the picture shown is the one document kept.  However calls overlap it is
\* never one that was deleted, but a document nobody shows may be left.
Picture3 == {o \in [1 .. 6 -> 1 .. 2] : Cardinality({i \in 1 .. 6 : o[i] = 1}) = 3}
PicCall  == {"set", "full", "clear"}
ASSUME PictureIsKept ==
    \A start \in {0, 9}, calls \in [1 .. 2 -> PicCall] :
        /\ \A order \in Picture3 : LET s == PictureLeft(start, calls, order) IN s.image \in s.docs \cup {0}
        /\ LET s == PictureLeft(start, calls, << 1, 1, 1, 2, 2, 2 >>) IN s.docs = {s.image} \ {0}
ASSUME PictureIsLeft ==
    \E calls \in [1 .. 2 -> PicCall], order \in Picture3 :
        LET s == PictureLeft(9, calls, order) IN s.at = << "done", "done" >> /\ s.docs # {s.image} \ {0}

\* A mute is overridden by a mention and by "@everyone"; who is mentioned by the whole
\* of a longer name is told of as well as its owner.
Names3 == << << "ann", "lee" >>, << "ann", "lee", "jones" >>, << "bob", "ray" >> >>
Texts3 == {<< >>, Everyone, << "ann", "lee" >>, << "ann", "lee", "jones" >>, << "bob", "ray", "hi" >>}
ASSUME MentionBeatsMute ==
    \A sender \in 1 .. 3, muted \in SUBSET (1 .. 3), text \in Texts3 :
        LET told == Notified(text, Names3, sender, muted) IN
        /\ sender \notin told
        /\ told = (1 .. 3) \ ({sender} \cup (muted \ Mentioned(text, Names3)))
        /\ text = Everyone => told = (1 .. 3) \ {sender}
ASSUME LongerNameMentionsShorter ==
    Notified(<< "ann", "lee", "jones" >>, Names3, 3, {1, 2}) = {1, 2}
=============================================================================
