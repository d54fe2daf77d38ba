# TGManager: TLA+ models, checks and proofs

TGManager is a multi-tenant back office for companies and schools: a NestJS
backend over Prisma and PostgreSQL (`Backend/`), a React single-page frontend
(`Frontend/`) and a mobile shell around it (`Mobile/`).  This directory models
the parts of it whose correctness depends on the order in which things happen:
leases between replicas and the webhook deliveries they guard, workflow
approvals, calls and messages over sockets, examination attempts and the page
they are sat on, the school's fee ledger, sessions and portal logins, the
access window of a tenant and its subscription.  Parts that are sequential, or
whose overlap is that of two short requests (scores, grades, timetables, clocks
and gates, roles, audiences, bundles of forms, stock), are functions, with facts
that are evaluated over all small inputs.

Paths below are relative to the repository, `modules/` stands for
`Backend/src/modules/`.

## 1. The system

### 1.1 How the parts interact

* **HTTP handlers.**  A handler reads rows, decides in TypeScript and writes
  rows.  Statements are atomic; transactions run at PostgreSQL's default READ
  COMMITTED and most checks are made on rows that were read *before* the
  transaction and are not read again in it.  Between any two `await`s another
  handler, on this or another replica, may run.  Almost every module below is
  about what survives that.
* **Scheduled jobs.**  `@nestjs/schedule` fires in every replica;
  `DistributedLockService.runOnce` lets one of them run: workflow escalation
  (every 5 minutes, 15 minute lease), access expiry (hourly, 55 minute lease),
  webhook delivery (every minute, 3 minute lease).  Jobs write the same rows as
  the handlers, under no common lock.
* **Sockets.**  `ChatGateway` (socket.io) keeps presence and calls in the memory
  of one process; its handlers interleave at `await`s.  Messages are stored by
  HTTP handlers and announced through the same sockets.  The browser's
  `CallOverlay` and chat page keep state machines, caches and timers of their own.
* **Browsers.**  The API client refreshes an expired session behind the pages'
  backs, once per tab; tabs share cookies.  The examination page saves answers
  in the background while the student goes on changing them.
* **Callbacks from outside.**  Stripe events, external integrations with an API
  key, WebRTC events in the browser.

### 1.2 Inventory

| Component | State | Operations | What is hard | Correct means | Module |
|---|---|---|---|---|---|
| Distributed lock (`Backend/src/common/locks`) | a row per job: owner, expiresAt | acquire by upsert, read back, run, release | crash, overrun, skewed clocks, late release | in time implies alone; an abandoned lease recovers | `DistributedLock`, with deliveries in `WebhookDelivery` |
| Workflow engine (`modules/workflows`) | template steps and rules; instance: status, current step, step instances | start, act, cancel, delegate, escalate, edit template | decisions from stale reads, job against users, cascades | implements pending → approved / rejected / cancelled; no step overtaken or reopened | `Workflow`, `WorkflowLifecycle` |
| Integrations (`modules/integrations`) | API keys, webhooks, delivery rows | start, submit step data, publish, deliver with retries | races with users; at-least-once; overlapping runs | as the workflow; three attempts, each counted; every delivery ends | `WebhookDelivery`, `Workflow` (step data) |
| Chat gateway (`modules/chat/chat.gateway.ts`) | presence, active calls | connect, drop, ring, accept, decline, cancel, end, prune | awaits between check and registration | presence is that of sockets; one call each; drops end calls | `ChatGateway` |
| Call overlay (`Frontend/src/components/chat/CallOverlay.tsx`) | status, session, timers | place, answer, cancel, hang up, events | crossing rings, timers, late acknowledgements | screens agree; ringing ends; nobody talks unaccepted | `ChatCalls` |
| Chat messages (`modules/chat/chat.service.ts`, `Frontend/src/pages/company/Chat.tsx`) | message rows, reactions, read marks; the page's cached lists | send, edit, delete, react, read, poll, events | count then create, edit against delete, a poll that answers late | deleted has no body; screens converge; shown is read | `ChatMessages` |
| Chat groups (`modules/chat/chat.service.ts`) | conversations, members, roles, pictures | open a direct chat, leave, add, remove, give a role, set the picture | find then create, count then delete, a role checked before it is taken | the creator stays; overlaps end as turns do; no picture is a deleted one | `ChatGroups` |
| CBT attempts (`modules/cbt`) | exam, attempts, answers | start, resume, save, submit, expire, edit duration | deadline against requests, double start, double submit | one live attempt, saved is scored, final | `CbtAttempts` |
| CBT exam page (`Frontend/src/pages/school/cbt/CbtTakeExam.tsx`) | pending answers, timers, save status | choose, autosave, flush, retry, submit, time out | an answer changed while it is being saved, a save overtaken by the submission | what is shown as saved is saved; every answer arrives; the result appears | `CbtExamPage` |
| CBT scoring and reports (`cbt-scoring.ts`, `cbt-analytics.service.ts`) | none | score, pass mark, deadline, report | multiple answers, rounding, two ways to limit what a teacher sees | more right answers never lower a score; figures agree | `CbtScoring` |
| CBT question bank (`cbt-import.ts`, `cbt-questions.service.ts`) | questions, options | import a file, edit options | letters, empty cells, recorded answers | an accepted row has one answer, and keeps it | `CbtQuestionBank` |
| CBT eligibility (`cbt-exams.service.ts`, `cbt-attempts.service.ts`) | none | list, open, start | three handlers decide alike | what may be begun says so | `CbtEligibility` |
| School fees (`modules/school/invoices.service.ts`) | invoices, payments | bill a class or a student, record a payment | lost update, count + 1 numbers | the ledger shows what was received | `SchoolFees` |
| Students (`modules/school/students.service.ts`) | students, guardians, logins | enrol, update, remove or archive | cascade, two-statement updates of status and login | receipts are kept; a leaver cannot sign in | `SchoolFees`, `Accounts` |
| Sessions (`modules/auth`, `Frontend/src/api/client.ts`) | refresh tokens, cookies, reset links | sign in, rotate, sign out, reset, change password | two tabs that share a cookie, a session issued during a password change | old sessions end; nobody is signed out by the program itself | `Accounts` |
| Account requests (`modules/account-requests`) | requests, addresses | ask, approve, reject a change of address or a reset | asked twice, approved while rejected | an address has one account and one claim | `AccountRequests`, `Accounts` (resets) |
| Tenant access (`modules/platform`, `tenant.guard.ts`) | tenant status, access window | suspend, activate, grant, update, delete, expiry sweep | sweep from a list, multi-statement handlers | grants and suspensions hold, lapses are marked | `TenantAccess` |
| Billing (`modules/billing`) | subscriptions, plan, credits | checkout, Stripe events, consume and grant credits | replayed and reordered events, lost update | the ledger explains the balance; a settled subscription mirrors Stripe | `Billing` |
| Plan limits (`modules/plans`) | none | count, compare | count then create | overshoot is bounded by the requests in flight | `WithinPlan` of `ChatMessages` |
| School timetable (`timetable.service.ts`) | periods | create, update | conflicts of class, teacher and room | nothing is double-booked | `Timetable` |
| School grading (`grading.service.ts`) | results | record, grade, position, publish | bands, ties, batches | grades follow totals | `SchoolResults` |
| Attendance and schedules (`modules/attendance`, `modules/schedules`, `school/staff-attendance.service.ts`) | schedules, attendance rows | create a schedule, clock in and out | which schedule applies, minutes, midnight | one schedule at a time judges a day | `StaffAttendance` |
| School calendar (`classes.service.ts`) | sessions, terms, which is current | create, update | clear and set are two statements | in turn one is current, and a failure heals | `SchoolCalendar` |
| Gate attendance (`modules/school/attendance.service.ts`) | a row per student and date | scan, mark a class, figures | dates of UTC, a register taken before or after the scan | first in, last out, a row a day; figures add up | `GateAttendance` |
| Roles (`modules/company-roles`, `modules/rbac`, `staff.service.ts`) | assignments | assign, unassign, resolve | count then delete, find then create | a role only adds; an administrator stays | `RoleAccess` |
| Memos (`modules/memos`) | memos, audiences | create, publish, update, read | two rules for one audience | who is told may read, who may read is told | `Memos` |
| Documents (`modules/documents`, `common/pagination`) | documents, grants | list, open, change, grant | list and open decide separately; pages | the list is what opens; pages are the list | `Documents` |
| Forms (`modules/forms`) | forms, submissions, a counter | update, submit, list, open | bundles share a number | numbers are tickets; a bundle stays open | `Forms` |
| Inventory (`modules/inventory`) | quantities, audit log | adjust | read, compute, write | the log explains the stock; shortage is told | `Inventory` |
| Weekly reports (`modules/weekly-reports`) | a report per user and week | submit, update, review | checks and index differ | one report of a week | `WeeklyReports` |
| Rate limit, database retry (`common/middleware`, `common/db`) | a bucket per address and path | admit, repeat | windows that meet | the limit holds in any window | `RequestLimits` |
| Notifications, push | rows, subscriptions | fire and forget | - | - | not modelled |
| Staff records, branches, departments, groups, settings, audit, reports | rows | CRUD | - | - | not modelled |
| CSRF guard | none | per request | - | - | not modelled |
| Other frontend pages, mobile shell | view state | - | - | - | not modelled |

The notes of `components` in `PROJECT.json` give the reason for each part
that is left out; its `hazards` list the places where this code is hard to test
and the property that watches each of them.

## 2. Modules

One file per component; `MC...` modules give a small instance its functions and
symmetry sets, `...Proofs` modules hold the theorems.

### 2.1 Components with a state

| Module | Models | State and its counterpart in the code |
|---|---|---|
| `DistributedLock` | `runOnce` in `distributed-lock.service.ts` | `owner`, `left`: the row and the time to its `expiresAt`; `pc`, `age`, `skew`: where a call is, how long ago and with which clock error it read `now` |
| `WebhookDelivery` (extends `DistributedLock`) | `integrations.service.ts`, `integrations-delivery.service.ts` | `hook`, `row`, `queue`: webhooks, delivery rows and their order; `todo`, `published`: what an event has still to be written for; `job[r]`: the list a run works off |
| `Workflow` | `workflows.service.ts`, `escalation.service.ts`, `submitStepDataFromIntegration` | `status`, `cur`, `st`, `assigned`, `original`: the columns of `WorkflowInstance` and `WorkflowStepInstance`; `live`: which step instances exist; `call[p]`: the local variables a handler holds between its read and its transaction; `todo`: the steps the escalation loop has still to visit |
| `WorkflowLifecycle` | the promise of `docs/PLAN.md` ("state machine PENDING → APPROVED / REJECTED / CANCELLED") | `status` and the set of decided steps |
| `ChatGateway` | `chat.gateway.ts` | `entry`: the `presence` map; `call`: a ring request and its entry of `activeCalls`; `sock`: where `handleConnection` is for a socket; `shown`: what the last `presence:update` said |
| `ChatCalls` (extends `ChatGateway`) | `CallOverlay.tsx` and the socket between browser and gateway | `screen`: status and `sessionRef`; `timers`: running timeouts, and whether `ringTimeoutRef` still points at them; `resets`: the resets that teardowns have set and that are still to come; `toServer`, `toClient`: ordered messages under way; `link`: the connection a browser uses |
| `ChatMessages` | `chat.service.ts`, `chat.controller.ts`, `Thread` of `Chat.tsx` | `row`: messages with reactions and reads; `recent`: the map `recentSends`; `req`: handlers in flight; `inbox`, `room`: the socket and how far it is on its way into the conversation's room (off, connected, joining, joined); `cache`, `poll`, `marking`: the query cache, a list on its way, `markRead` |
| `CbtAttempts` | `cbt-attempts.service.ts`, `update` of `cbt-exams.service.ts` | `att`, `answer`, `scored`: attempt rows, answer rows and the selections a score was computed from; `call`: handlers in flight |
| `CbtExamPage` | `CbtTakeExam.tsx` against the attempt at the server | `chosen`, `pending`, `timer`, `save`, `waiting`, `finished`, `posts`, `status`, `done`: the page's state and refs, the flush in flight and submissions; `saved`, `scored`, `closed`, `over`: the attempt |
| `SchoolFees` | `invoices.service.ts`, `delete` of `students.service.ts` | `inv`, `receipts`: rows; `received`: a history of payments; `call` |
| `TenantAccess` | `platform.service.ts`, `tenant.guard.ts` | `status`, `left`: tenant status and time to `endsAt`; `todo`: the sweep's list; `call` |
| `Billing` | `billing.service.ts`, `billing.controller.ts` | `row`, `tenantPlan`, `ledger`: the subscription row, `Tenant.planId`, the sum of `CreditTransaction`; `stripe`, `event`, `pending`: Stripe's side (external); `work`: handlers in flight |
| `Accounts` | `auth.service.ts`, `jwt-token.service.ts`, resets, `students.service.ts`, the refresh of `api/client.ts` | `pw`, `active`, `status`, `link`: rows of one student's user; `token`, `cookie`: refresh tokens and the browser's; `flight`, `job`: requests of the tabs and of others |

`ChatCalls` and `WebhookDelivery` compose two components each: their steps are
conjunctions of the actions of the gateway, or of the lease, with their own.
`Workflow` instantiates `WorkflowLifecycle` with `decided <- {s : st[s] # "PENDING"}`.

### 2.2 Functions

These modules have no variables.  They define what a handler does to rows as
functions, and state facts about them as named `ASSUME`s over small sets of
inputs, which TLC evaluates in the run given.  A fact whose comment quotes or
praises the code says that it holds for all the inputs; one of the form "there
is an input ..." documents a corner of the code that section 7 lists.

| Module | Models | Run |
|---|---|---|
| `CbtScoring` | `cbt-scoring.ts`: marks, penalties, rounding, pass mark, time used; `cbt-analytics.service.ts`: figures and who sees them | `cbt` |
| `CbtQuestionBank` | `cbt-import.ts`, options in `cbt-questions.service.ts` | `cbt` |
| `CbtEligibility` | `listForStudent`, `getForStudent` and `start` on one exam and student | `cbt` |
| `Timetable` | `timetable.service.ts`: conflicts, creation and change of a period | `fees` |
| `SchoolResults` | `grading.service.ts`: bands, totals, positions, approval | `fees` |
| `StaffAttendance` | `attendance.service.ts`, `schedules.service.ts`, `school/staff-attendance.service.ts` | `fees` |
| `SchoolCalendar` | the current session and term in `classes.service.ts`, two requests interleaved | `fees` |
| `GateAttendance` | `school/attendance.service.ts`: scans, the register, figures, geofences | `fees` |
| `RoleAccess` | `abilities.service.ts`, assignments in `company-roles` and `staff`, two calls interleaved | `access` |
| `Memos`, `Documents`, `Forms` | who is told, finds, opens, bundles | `access` |
| `Inventory` | `adjust`, three calls interleaved | `access` |
| `WeeklyReports` | `weekly-reports.service.ts`: submit, update, review | `access` |
| `AccountRequests` | `account-requests.service.ts`: changes of address, two calls interleaved | `accounts` |
| `ChatGroups` | conversations, members, pictures and notices in `chat.service.ts`, two calls interleaved | `chat_gateway` |
| `RequestLimits` | `rate-limit.middleware.ts`, `prisma-retry.ts` | `access` |

### 2.3 Conventions

**Handlers as actions.**  A handler that reads, then writes in a later
statement, is one action per statement (`ActRead`/`ActCommit`,
`PayRead`/`PayCount`/`PayCommit`, ...).  What it keeps in local variables is the
record `call[p]` (or `work`, `req`, `job`), and its later actions write from that
record, not from the state, exactly where the code does.

**History variables.**  Many promises hold only while handlers take turns, and
the code does nothing to make them.  Where that is so, the model has a Boolean
that becomes TRUE when a handler begins while another is in flight, and the
property reads `~mixed => ...`.  The runs still explore every overlap, so
properties without that premise are about all of them.  Each premise is as weak
as the property allows and is named after what has happened:

* `mixed` (`CbtAttempts`, `SchoolFees`, `TenantAccess`): two requests overlapped,
  or time passed within one; `edits`: the exam was edited;
* `failed`, `untimed` (`ChatCalls`): what has gone wrong (the faults, and "wiped"
  when the late reset of a teardown took a ring or a call off a screen), and the
  rings that a cut connection left without a timeout;
* `overlapped` (`WebhookDelivery`): two runs of the job at once;
  (`ChatMessages`): two requests in flight together; (`Accounts`): two requests
  that are not the browser's own in flight together;
* `missed` (`ChatMessages`): per user the messages of others of whose creation no
  event reached the thread, because the socket was not in the room or dropped with
  the event on its way;
* `dropped`, `cut`, `stranded` (`CbtExamPage`): the questions whose newer answer
  was forgotten together with an older one; the attempt was closed with answers
  that had no chance to be saved; the page was refused a save and then could not
  fetch the result;
* `shuffled`, `clashed` (`Billing`): events, the checkouts that are refused left
  aside, were not handled one by one in their order; two requests that change
  credits overlapped;
* `signed`, `crossed`, `leftBy` (`Accounts`): the browser signed in and nothing
  that would end its session, a failed refresh included, happened since; a session
  was being issued while the password changed; what ended the enrolment.

`Workflow` has a constant `Serial` instead, because its refinement needs every
step of a behaviour to be serial.

## 3. Runs

Twelve runs; everything listed holds in each.

| Run | Configuration | Properties | Distinct states |
|---|---|---|---|
| `deliveries` | `WebhookDelivery.cfg` | `TimelyIsAlone` `AttemptsAreCounted` `DeliveredIsFinal` `EveryDeliveryEnds` | 186 539 |
| `workflow_serial` | `WorkflowSerial.cfg` | `ImplementsLifecycle` `EscalationFinishes` | 7 857 |
| `workflow_overlap` | `WorkflowOverlap.cfg` | `ApprovedHasNoOpenStep` `DecidedStaysDecided` `NoStepOvertaken` | 91 117 |
| `chat_gateway` | `ChatGateway.cfg` | `OneCallEach` `PresenceIsTrue` `DropEndsEveryCall` | 225 580 |
| `chat_calls` | `ChatCalls.cfg` | `QuietScreensAgree` `TalkingWasAccepted` `RingingEnds` | 462 030 |
| `cbt` | `CbtAttempts.cfg` | `OneLiveAttempt` `SavedWasScored` `NobodyLosesTime` `SubmittedByDeadline` `ClosedIsFinal` | 585 510 |
| `cbt_page` | `CbtExamPage.cfg` | `SavedIsTrue` `ResultCountsWhatWasSeen` `AnswersReachServer` `ResultIsShown` | 307 934 |
| `fees` | `SchoolFees.cfg` | `PaidWasReceived` `PaidHasReceipts` `NextNumbersAreFree` `ReceiptsAreKept` | 252 232 |
| `access` | `TenantAccess.cfg` | `DecisionsAreKept` `LapsedIsMarked` | 157 177 |
| `billing` | `Billing.cfg` | `LedgerExplainsBalance` `SettledMirrorsStripe` `EventsSettle` | 916 417 |
| `accounts` | `Accounts.cfg` | `OldSessionsEnd` `StaysSignedIn` `LeaverCannotSignIn` | 615 902 |
| `messages` | `ChatMessages.cfg` | `DeletedHasNoBody` `OvershootIsBounded` `ScreensConverge` `ShownIsRead` | 236 372 |

What they show:

* **deliveries.**  Two replicas fire the delivery job under the lease; webhooks are
  created and removed, a post is refused or fails, a replica crashes between a
  post and the update of its row, and a run may last twice as long as its lease.
  Two runs within their leases never coexist.  Until two runs overlap, every
  post is accounted for by its row's count and a delivered row is left alone.
  Every row becomes DELIVERED, FAILED, or goes with its webhook.
* **workflow_serial.**  A submission step and two others, one of which is held
  through a role, an admin, integration data, cancellation, delegation and the
  escalation job, taking turns: every step of the program is one of the
  lifecycle; with a deciding rule on every step, behind rules that fire only for
  absent users, every instance ends without anybody acting.
* **workflow_overlap.**  Two requests, the escalation job (which reassigns one
  step and skips the next) and one template edit overlap freely.  A decided step
  never reopens, no user decides a step past an open one, and no approved
  instance has an open step.
* **chat_gateway.**  Three users, one on two tabs, two rings.  Presence is that of
  the sockets, and what the members of a tenant were told about it is always what
  the gateway would answer; until two ring handlers overlap a user is in one call,
  and the one call `endCallsForUser` deletes is then every call of the user.  The
  facts of `ChatGroups` are evaluated here.
* **chat_calls.**  Two users whose rings cross, over ordered channels, with the
  real timers; microphones refused, media lost, rings given up before they are
  acknowledged, a connection that is cut and comes back, and the reset that every
  teardown sets for 2.6 s later and nothing takes back.  As long as nothing failed
  and no such reset took a later ring or call, once no message is under way, the
  registry's calls are exactly those on two screens, which show the same
  stage.  Neither side checks this anywhere; it rests on declines, cancels and
  acknowledgements meeting in every order.  No caller is in a talking state of a
  call that its callee did not accept.  Ringing ends by itself, except in three
  cases which section 7 explains: a ring given up early, an acknowledgement lost
  with the connection, and a ring that follows one whose call ended with the
  connection.
* **cbt.**  Two requests of one student, or of a teacher, against a limit of one
  attempt, a clock and an edit of the duration.  Until requests overlap there is
  one live attempt, everything saved is scored, a closed attempt is final.
  Until then, too, an edit of the duration moves every deadline by as much; while
  the exam is not edited nothing is recorded as submitted late, whatever
  overlaps.  TLC also evaluates the facts of `CbtScoring` (`ScoreIsMonotone`,
  `PassNeedsItsShare`, `TimeIsBounded`), `CbtQuestionBank` and `CbtEligibility`
  here.
* **cbt_page.**  Two questions answered and changed while the debounce timer, the
  ten second safety net, the countdown and the submission run, over requests
  that are lost before or after they took effect.  What the page calls saved is
  saved, except for an answer that was changed during its own save; the result
  counts what was seen, except for saves the submission overtook; answers do not
  wait for ever; the result is shown, unless the page is refused a save and
  cannot load the attempt.
* **fees.**  Two requests among billing a class, billing a student, paying,
  removing and archiving: an invoice never claims more than its receipts; until
  requests overlap it shows what was received and no receipt is lost.  The facts of
  `Timetable`, `SchoolResults`, `StaffAttendance`, `SchoolCalendar` and
  `GateAttendance` are evaluated here.
* **access.**  Two administrators' requests, the sweep, the end of windows and
  the deletion of a tenant: until handlers overlap a grant lets the tenant in
  until its window ends and a suspension holds; a tenant whose window ended is
  marked by some later sweep, also when a deletion makes one fail.  The facts of
  `RoleAccess`, `RequestLimits`, `Memos`, `Documents`, `Forms`, `Inventory` and
  `WeeklyReports` are evaluated here.
* **billing.**  Up to three subscriptions of one tenant (an upgrade, and one whose
  session names no plan that is known), three events that Stripe sends until they
  are answered, one handler that dies or whose answer is lost, a credit spent and
  one granted meanwhile.  The ledger of transactions
  explains the balance until two credit changes overlap; once the events are
  handled in their order the row says what Stripe says, whatever was repeated or
  refused in between; no event is sent for ever but the checkouts that
  `handleCheckoutCompleted` refuses, however often they are sent, because they have
  no metadata or name no known plan.
* **accounts.**  Two tabs that share their cookies, refreshes, sign-outs, resets,
  password changes by the student, an administrator and the school office,
  enrolment, removal and re-enrolment, and statements that fail between those of a
  login or a refresh.  A session opened with an old password is gone
  once the change is done; a browser that signed in stays signed in over its
  refreshes, unless one fails, for whatever reason, or two tabs refresh together;
  a student who left cannot sign in.  Each up to the overlap that its premise
  names.  The facts of `AccountRequests` are evaluated here.
* **messages.**  Two requests among send, edit, delete and react, or three sends of
  which two overlap; a page that applies events, its own answers and polls; and its
  socket, which begins at any stage of its way into the room, connects, joins or is
  refused, and drops, any number of times.  Until two requests overlap a deleted
  message has no body; the plan's limit, which four messages could exceed by two, is
  overshot by one at most, which is fewer than the requests in flight; the screen
  comes to show what the server would answer, and what an open thread shows gets
  marked as read if an event told the thread of it, whenever the socket joined.

The facts of the function modules are listed with their statements in those
modules; the ones that document a corner are repeated in section 7.

### 3.1 Bounds

| Bound | Value | Why it is enough |
|---|---|---|
| `Run`, `Lease`, `MaxSkew`, `MaxClaim`, `MaxRun`, `MaxCrash` (`deliveries`) | 2, 1, 0, 1, 2, 1 | a late run and its challenger; a run outlives its lease by a whole lease.  Skewed clocks and any number of runs are the theorem's business |
| webhooks, events, `Limit`, `Take`, `MaxFault` | 2 (one removable), 1, 2, 1, 1 | a row's last attempt and the one before; a second row waits for the next run's batch |
| `NSteps` | 3 | one decided at the start, one before and one after the pointer |
| `User`, `Req` (workflow) | 2 or 3, 1 or 2 | the holder, another holder, the admin; two requests plus the job already overlap three ways |
| `MaxEdits` (workflow) | 1 | one edit removes every step instance |
| `User`, `Socket`, `CallId` (`chat_gateway`) | 3, 4, 2 | a second tab; two calls can collide with each other |
| `User`, `CallId`, `RingTimeout`, cuts (`chat_calls`) | 2, 2, 1, 1 | crossing rings and a ring after an abandoned one; ages before, at and after the timeout; the user whose connection is cut calls and is called.  Resets are not bounded: every teardown adds one, which comes at any moment within its tick |
| `MaxNumber`, `MaxAttempts`, `MaxTime`, `Duration` | 3, 1, 2, {1, 2} | more numbers than the limit plus the overshoot; deadlines before, at and after the clock; an edit in either direction |
| `Question`, `Option` (`cbt`) | 1, 1 | an answer is there or not, which is all that scoring a snapshot can miss |
| `cbt_page` | 2 questions, 2 options, 3 changes, 2 faults, 2 posts | a question changed during its save while another waits; a lost save and a lost submission; the clock and the student submit both |
| `Student`, `Invoice`, `Total`, `MaxReceipt` | 2, 2, {0, 2}, 3 | one who may be removed and one who stays; partial and full payments; two payments of one invoice and one of another |
| `Tenant`, `Days`, `MaxChanges`, `MaxDeletes` | 2, {1, 2}, 4, 1 | one tenant is deleted while the other must still be marked; a suspension, two overlapping grants and a reactivation |
| `billing` | 3 subscriptions, one without a plan, 3 plans, 2 handlers, 3 events, 1 fault, 1 use | an old subscription's end after a new one's start; an event twice and another between; a checkout that is refused between two that are not |
| `accounts` | 4 operations, 3 tokens, 2 tabs, 2 flights, 2 jobs, 1 re-enrolment | a token, its successor and one issued in between; both tabs refreshing; a change, and a session being issued |
| `messages` | 2 users (1 screen), 4 messages, 2 requests in flight, 2 operations of any kind or 3 sends, plan limit 2 | three sends after the first message make four where the bound allows three; a change of the same row by both requests.  The socket may connect, join and drop without bound |

Symmetry is used for requests, calls, invoices and tabs only, in runs without
liveness properties.  `CHECK_DEADLOCK FALSE` stands where the bounded instance is
really used up (instances decided, tries taken, debts paid, calls over);
`deliveries` and `access` never stop and are checked for deadlock.

### 3.2 Fairness

Nothing that a user, an administrator, a crash or a network failure does is fair.

* `WebhookDelivery!FairJobs`: cron fires again on every replica, statements and
  posts end, clocks advance.
* `Workflow!EscalationSpec`: the job is scheduled every five minutes and its
  handlers end; timeouts elapse.  `Scan` and `Evaluate` are strongly fair only
  because requests that take turns (`Serial`) would otherwise keep the job from
  its turn for ever, which the code, having no such turns, cannot do.
* `ChatCalls!FairCalls`: messages arrive on a connection that stays up, handlers
  and timers run, and a browser whose connection was cut connects again (socket.io
  tries without end).  No user has to press anything; no connection has to be cut,
  and the gateway need not notice.
* `CbtExamPage!FairSpec`: a request that was sent arrives or fails, answers are
  applied, the ten second safety net (`setInterval`) fires, and an expired
  countdown submits.  The countdown itself need not run out.
* `TenantAccess!FairSpec`: the sweep is scheduled hourly, works its list off,
  handlers end, time passes.  Deletions and requests are not fair.
* `Billing!FairBillingSpec`: a handler that has begun goes on, and Stripe keeps sending
  each event that was not answered, so that one which is refused for ever does not
  stand in the way of the others.
* `ChatMessages!FairMessages`: requests are answered, events on an open socket are
  received, effects run, the query refetches at its interval.  The socket need not
  connect, nor a join arrive.

## 4. Proofs

Every theorem holds for all values of the constants its module allows: any number
of users, sockets, replicas, tabs, requests, questions, invoices, subscriptions,
and any lengths and limits.  None assumes that handlers take turns unless its
statement says so, and the statement says it through a history variable (2.3), so
that the theorem also covers every behaviour up to the first overlap.  The only
assumptions are the `ASSUME`s of the modules (types of the constants, which sets
are finite), which TLC evaluates in the runs.

Each module of proofs follows one pattern: the type invariant; an inductive
invariant made of named parts, each with a comment that says what it adds; a lemma
per group of actions with a step per action; and a theorem per property, which
combines them.  Every inductive invariant was first checked by TLC on the run's
instance.

| Module | Theorem | States | Argument |
|---|---|---|---|
| `WebhookDeliveryProofs` (the lease) | `TypeCorrect`, `TimelyExclusion` | types; `TimelyIsAlone`, and that a run within its lease owns the row | `LeaseAccount`: a running call owns the row or is late, and the time left of a row its owner holds is exactly what its owner would compute.  The row's owner is needed because `left` alone does not say whose lease it is |
| | `MutualExclusion` | with `CallFitsLease`, two runs never execute the job together | nobody can be late |
| (the deliveries) | `JobsKeepTheLease`, `TimelyJobsAreAlone` | every step of the deliveries is one of `DistributedLock` or leaves the lease alone; so `TimelyIsAlone` holds of them | step by step, each conjunction of a lock's action with the job's own |
| | `JobsTypeCorrect`, `PostsAreAttempts`, `DeliveredStays` | types, however runs overlap; `AttemptsAreCounted`, `DeliveredIsFinal` until they do | `DeliveryInv`.  The counts alone are not inductive: a run writes from its list, so the rows on a list must be as it read them (`SnapshotHolds`), a list must not name a delivery twice (`ListedOnce`), and the queue must not either (`CreatedOnce`) |
| `WorkflowProofs` | `WorkflowTypeCorrect`, `OverlapSafe`, `NeverOvertaken`, `NeverReopened` | however handlers overlap | `Sound`: steps only leave PENDING, so what a handler remembers as open contains all that is open, and the pointer is never behind the first open step |
| | `SerialImplements`, `SerialOutcomeIsFinal` | `ImplementsLifecycle` when handlers take turns | `SerialSound`: one call at a time, whose memory is the present; then each commit is `Complete`, `Reject` or `Cancel` of the lifecycle and everything else a stutter |
| `ChatProofs` (the gateway) | `GatewayTypeCorrect`, `OneCallEver`, `DropIsComplete` | until rings overlap | `CalmCalls`: one ring in flight, whose parties are free once it was checked, and nobody in two calls.  "Nobody in two calls" is not inductive without the second conjunct |
| | `PresenceHolds` | `PresenceIsTrue`, however sockets come and go | `PresenceInv`: the entry of a user lists exactly the sockets that are on, or closed while they were let in |
| (the overlay) | `CallsTypeCorrect`, `TalkingAccepted` | types of screens, timers and messages under way; `TalkingWasAccepted` whatever is lost or crosses | `AcceptedTold`: an "accepted" under way is about an accepted call, and nothing unaccepts one |
| | `ScreensAgree` | `QuietScreensAgree` until something fails or a late reset takes a later ring or call off a screen, for any number of users and calls, whatever is pressed when | `AgreeInv`.  The property speaks of quiet moments only, so the invariant says of every other moment what is still under way: everybody has the connection it began with (`Linked`); a ring waits for exactly what is on its way (`Awaited`); nothing about a call overtakes what opens it (`InOrder`), and whoever answered or left has got that (`Past`); a registered call is on its two screens, on its way there, or about to end (`Registered`), with a timeout as old as the call, so that the sweep finds none; who shows a call that is over is about to learn it (`Ended`); the stages of the two sides are apart by what is under way (`Staged`) |
| (messages) | `MessagesTypeCorrect`, `DeletedIsGone` | types; `DeletedHasNoBody` until requests overlap | `DeletedInv`: one request in flight, and an edit that passed its check finds the message undeleted |
| | `OvershootHolds` | `OvershootIsBounded`, however requests overlap | `CountInv`: messages there are and sends that passed the limit are counted together.  That count is not inductive unless no statement makes a row out of none but the create: whatever is in flight names a message there is (`Aimed`, `Repeats`), and every message has a sender (`Authored`) |
| `CbtAttemptsProofs` | `CbtTypeCorrect`, `OneAttemptIsLive`, `SavedAnswersCount`, `ClosedStaysClosed` | types; `OneLiveAttempt`, `SavedWasScored`, `ClosedIsFinal` until requests overlap | `CalmInv`: one call, and what it has read is still so, which `Fits` says for each kind of call |
| | `NobodyIsCutShort` | `NobodyLosesTime` until then | `TimeInv`: a handler that is alone knows the duration of the exam, and between the shift of the deadlines and the write of the exam the open attempts have the time of the new duration (`Timely`).  The property says nothing of that state between two statements, and is not inductive for it |
| | `SubmittedInTime` | `SubmittedByDeadline` until the exam is edited, whatever overlaps | `DeadlineInv`: what a closing call knows is the attempt's deadline |
| `CbtExamPageProofs` | `TypeCorrect`, `SavedMeansSaved`, `ResultIsOfThePage` | types; `SavedIsTrue`, `ResultCountsWhatWasSeen`, whatever is lost | `PageAccount`: an answer that waits is the one shown, the entries of a flush wait until it was answered (`WaitingIsShown`), what does not wait is at the server (`SavedUnlessWaiting`), a submission goes out when nothing waits or with all that waits (`SubmitsAll`) |
| `SchoolFeesProofs` | `FeesTypeCorrect`, `LedgerAddsUp` | always | `LedgerInv`: a payment in flight knows a sum that the invoice really received |
| | `SerialLedgerIsExact`, `ReceiptsStay` | `PaidWasReceived`, `ReceiptsAreKept` until requests overlap | `FeesSerialInv`: the reading of the one call in flight still holds |
| | `NumbersHaveNoGaps` | until a student is removed, or requests overlap | `NumbersInv`: the numbers in use are 1 to their count, and a number in flight is at most one beyond it, so the unique index keeps the row of numbers closed whoever wins |
| `TenancyProofs` (access) | `AccessTypeCorrect`, `DecisionsHold`, `NothingIsOverwritten` | until handlers overlap | `AccessInv`: one handler at a time, whose reading is current; a grant, once decided, leaves the status ACTIVE unless the window is over |
| (billing) | `BillingTypeCorrect`, `LedgerIsTheBalance` | types; `LedgerExplainsBalance` until two changes of credits overlap, whatever dies between its statements | `OneReader`: one such request is in flight, and what it read is the balance |
| | `EventsBringThePlan` | `SettledMirrorsStripe`: events handled one by one, with any repetition of the last, bring the plan that is paid for; the checkouts that are refused count neither as paid nor as events to wait for | `InOrder`: the row and the plan are what the first k events make of them, and the next event may be handled in part, its row before its plan.  It needs what Stripe's side promises by construction (`StripeHistory`): a checkout first, nothing after the end, an older subscription before a newer one |
| `AccountsProofs` | `TypeCorrect`, `SetPasswordEndsSessions`, `RefreshKeepsSession`, `LeaverIsLockedOut` | types; `OldSessionsEnd`, `StaysSignedIn`, `LeaverCannotSignIn`, for any number of tabs, tokens and requests | `Accounted`: no session remembers a password that was never set (`PasswordsCounted`), tokens named by cookies and flights have rows and a rotation carries the password of its session (`SessionRows`), a session about to be issued is as young as those that are live (`CurrentIssues`), a cookie whose token was revoked has its successor under way, in the refresh of its own tab and not in a login that may still fail (`SignedIn`), a change that took the student out has switched the login off or is about to (`Leaving`) |

The theorems `LedgerAddsUp`, `NothingIsOverwritten`, `OverlapSafe`,
`MutualExclusion` and `SerialOutcomeIsFinal` also state `RowsAddUp`,
`RunningWindowIsKept` and `OnlyActiveIsEnded`, `PendingHasPointer`,
`SingleRunner` and `TerminalIsFinal`, which no run lists; the type invariants of
these modules are theorems too, and are not repeated in the runs.

**Only model-checked.**

* The liveness properties (`EveryDeliveryEnds`, `EscalationFinishes`,
  `RingingEnds`, `LapsedIsMarked`, `EventsSettle`, `AnswersReachServer`,
  `ResultIsShown`, `ScreensConverge`, `ShownIsRead`), which need fairness and
  `ENABLED`.
* The facts of the function modules, which hold for the inputs their `ASSUME`s
  name: most are about sequences and folds, for which a proof would be an
  induction over data.


## 5. Abstractions

* **General.**  Prisma's transactions are one action where nothing in them is
  conditional on a later read.  A failing statement rolls back and ends the
  handler.  Rows that another tenant owns are invisible to a handler and left out.
* **DistributedLock, WebhookDelivery.**  One job name.  Time is relative, so that
  it needs no bound; only the sign of an elapsed lease is kept.  One type of event
  per webhook; rows are listed by `createdAt`.
* **Workflow.**  One instance of one template.  Reading the instance with its
  steps is atomic.  Notifications, audit and form data are left out.  Whether an
  assignee is absent is open at each evaluation.  `NO_RESPONSE` and `TIMEOUT`
  both elapse.  Evaluations of the job do not overlap each other (that is
  `DistributedLock`'s business).  The result of assignee resolution is a
  constant.
* **ChatGateway.**  `Map` order is age; ties are left open.  Conversations do not
  change while calls run.
* **ChatCalls.**  One tab per user.  A connection is cut at the moment the browser
  notices; what it had sent in vain until then is what is lost.  What the browser
  sends while it has no connection waits and is sent when it is back, as
  socket.io-client does.  After a cut nothing else fails.  Offer, answer and ICE
  candidates are one step (`MediaUp`), which needs the call in the registry.  A
  message and a reset take less than a tick.  Both ring timeouts are 45 s.  The
  microphone is refused before a ring is acknowledged or while a call connects.
* **ChatMessages.**  One conversation, whose thread is open, and one emoji.  Bodies
  are absent or present; the collapse of equal texts within a few seconds is a
  choice of the send action.  A join that waits in a connecting socket is one made
  once it is connected; selecting the thread when the socket is in its room already
  changes nothing that is modelled; why a join is refused is left open.
* **CbtAttempts, CbtExamPage.**  One student, one exam, its window open.  A score
  is the snapshot it was computed from.  Seen from the page a handler of the
  server is one step; marks for review travel with their answer; reopening the
  page is left out.
* **SchoolFees.**  One year's numbers; amounts are whole numbers.  Listing and
  fee structures are left out.
* **TenantAccess.**  One subscription row per tenant.  Handlers with two status
  writes in a row are folded where nothing can tell.
* **Billing.**  One kind of credit; the plan of a Stripe subscription does not
  change.  Customers and unpaid checkout sessions are left out; a session that the
  code did not open may be paid, and names no plan that is known.  `consumeCredit`
  and `grantCredits` are exported and called by nothing in the repository; they
  run at any time, within the bound.  Stripe's side is external: it sends an
  event again only after the previous attempt ended.
* **Accounts.**  One student's login.  The expiry of tokens is left out, which
  only ends sessions.  Any statement of a login or a refresh may fail.  A refresh
  whose answer was lost signs the browser out, as in the code; a refresh of two
  tabs that cross clears the shared cookies.
* **StaffAttendance, GateAttendance.**  Times are half minutes or whole hours of
  one zone; parsing of identifiers and geofences of staff are left out.
* **SchoolResults, Timetable, SchoolCalendar.**  One subject and term; ordinals
  for times; two creations under one name do not overlap.
* **RoleAccess, Memos, Documents, Forms.**  Members are the union of a tenant's
  active records.  Editing of roles, storage, plan limits, soft deletion, the
  validation of fields and the removal of forms are left out.
* **CbtScoring.**  Sums of decimals are exact; the mean time and number of right
  answers of a report are left out.
* **CbtQuestionBank.**  Texts without capitals; other columns are left out.
* **Inventory, WeeklyReports.**  The other fields of an item are left out; a
  report's notes are a count of edits, attachments and removal are left out.
* **AccountRequests.**  Addresses are in lower case, as the request's schema makes
  them.  An approval's transaction is one step: the index on addresses refuses what
  its own check misses.
* **ChatGroups.**  Users exist in the tenant; names and mutes are left out; a list
  of users to add is one user.  Which sockets are in the room of a conversation is
  left out.  A text has one "@".
* **RequestLimits.**  One address and path; the removal of old buckets is left out.

## 6. Not modelled, and the plan

Not modelled for good: pages other than the three whose state machines are
modelled, mobile shell, storage and mail I/O, password hashing, CRUD of rows by
key, read-only counts, DTO validation, the CSRF comparison, seeds, generated
API documents; notifications and push, which are sent and forgotten.

Done: `DistributedLock` with `WebhookDelivery`; `Workflow` with
`WorkflowLifecycle`; `ChatGateway` with `ChatCalls`; `ChatMessages`;
`CbtAttempts`, `CbtExamPage`; `SchoolFees`; `TenantAccess`; `Billing`;
`Accounts`; the function modules of 2.2.

Left, in this order:

1. `Billing` composed with `TenantAccess` over the row they share, whose `endsAt`
   a checkout leaves as it was.
2. `CbtExamPage` reopened after a drop, over `CbtAttempts` with its handlers in
   several steps.

## 7. Where code and documents disagree, and corners

None of these has a run that ends in a violation: they are readings of the code
beside its documents, traces that appear when the premise of a property is
dropped, or facts of a function module (named in parentheses).

* **Lock and deliveries:** a job that outlives its lease runs twice (no renewal,
  no fencing); overlapping runs of the delivery job then write counts and
  statuses of their own snapshots, which undoes a delivery already recorded; a
  post whose row could not be updated is made again.
* **Workflow:** an escalation rule completes a required step
  (`workflows.service.ts:1000` against `docs/PLAN.md:214`); a step that the job
  makes current notifies nobody (`:1048`); overlapping handlers overwrite an
  outcome or a cancellation and leave a stale pointer; a NOTIFY rule of higher
  priority hides the automatic rule behind it at every evaluation; a delegating
  assignee who also holds the step's role can still act.
* **Calls:** with two calls of one user a drop ends only the first
  (`chat.gateway.ts:539` against the comment at `:534`); pruning removes accepted
  calls (`:528` against `:524`); a socket that closes during its membership check
  is online for good; a tab in a second tenant takes the user offline in the
  first; two overlapping rings both pass the busy check; a caller that drops
  during its ring leaves a call behind; accepting does not stop the ring timers,
  which end the call 45 s after the ring; cancelling before the acknowledgement
  does not reach the callee, and the late acknowledgement disarms the timer of the
  ring that came in meanwhile, which then never stops.  A ring whose
  acknowledgement is lost with the connection has no timer and rings until it is
  cancelled by hand.  The gateway ends a user's calls when it notices that an old
  connection is gone, also after the user is back and in another call, and tells
  the peer only; when the peer rings again, the overlay declines as busy and, by
  counting `raceGuardRef` before that, makes the timeout of the ring it still
  shows void.  Every teardown sets a reset for 2.6 s later, which is neither taken
  back nor asks what is on the screen by then (`CallOverlay.tsx:295`): when both
  sides hang up at once, the second one's screen is torn down twice, and its second
  reset may come after the first has let the next ring or call on the screen, which
  it takes away without telling the gateway.
* **Messages:** an edit that checked before a deletion writes a body into the
  deleted row; a socket that reconnects does not join its conversation's room
  again; one without an access token is not opened and its join is dropped
  (`notificationsSocket.ts:66`, `:52-55`), and a join that comes before the user is
  known is refused (`chat.gateway.ts:172-176`): such a thread is filled by polls,
  which mark nothing read; a poll that answers late replaces newer events until
  the next one; `recentSends` is stamped after the create, so equal sends that
  overlap are both stored; overlapping sends exceed the plan's limit.
* **Attempts:** two overlapping starts create two live attempts or exceed the
  limit; answers are stored after the attempt was scored; the second of two
  submits scores again; an attempt created during an edit keeps the old duration;
  a live attempt cannot be resumed after the exam's window.
* **Exam page:** an answer changed while it is being saved is forgotten with the
  older one; a submission goes out before a slow save and is scored without it; a
  refused save whose fetch of the result fails leaves the page with neither
  result nor submission.
* **Questions:** an imported answer is read as a letter before it is read as a
  text, letters count columns with empty ones left out, the preview's index points
  elsewhere than the stored one (`LetterGoesBeforeText`, `LettersCountColumns`,
  `PreviewPointsElsewhere`); the options of an answered question can be turned
  round (`AnsweredOptionsAreTurnedRound`).
* **Fees:** two overlapping payments count as one, or together exceed the
  balance; a student is removed together with an invoice made meanwhile.
* **Students and logins:** a student enrolled with a status other than ACTIVE gets
  an active login (`students.service.ts:182-254` against the comment at
  `:349-350`); refreshes of two tabs that cross end the session of both; a refresh
  clears the cookies on any error, also when only a statement failed
  (`auth.controller.ts:141`); a session being issued survives a password change;
  admission numbers are count + 1.
* **Timetable, grading:** a change of one end of a period may invert it
  (`OneEndIsMovedPastTheOther`); a total between two bands, or above the first, is
  an F (`OutsideTheBandsIsAnF`); positions are those of a batch
  (`EachBatchHasAFirst`); locked results can be recorded again (`LockIsNotRead`),
  and an approval takes the published status back.
* **Attendance:** the schedule is chosen regardless of the weekday; no department
  matches any (`attendance.service.ts:457` against `:438-444`,
  `AnyDepartmentApplies`); leaving after midnight is judged by the next day
  (`NextMorningIsEarly`).  At the gate, an absent student is checked out
  (`AbsentIsCheckedOut`) and the date is that of UTC (`EveningIsTheNextDay`).
* **Calendar:** overlapping changes leave two current rows, a failure between the
  two statements none (`OverlapLeavesTwo`, `FailureLeavesNone`); the next request
  heals both.  A change that leaves the mark out takes it away (`UnsaidIsNo`):
  under the validation library in use a partial schema keeps the defaults of its
  fields, which is external behaviour and holds for other schemas with defaults
  too.  The current term does not follow the session (`TermOfAnotherSession`).
* **Access and billing:** the sweep ends a tenant that was renewed or suspended
  meanwhile; a reactivation makes a window endless that was granted meanwhile; a
  checkout leaves `endsAt` on the row it renews, so that the sweep ends a tenant
  that pays; a paid checkout whose session has no metadata or names no known plan is
  refused each time Stripe sends it (`billing.service.ts:100-109`); events out of
  order change a newer subscription's row; of two overlapping credit changes one
  is lost.
* **Roles:** two overlapping removals take the last administrator
  (`OverlapRemovesTheLast`); a role of one branch counts for all when it is assigned
  without a branch (`RoleOfABranchCountsForAll`); a role without branch given twice
  is there twice, and one removal leaves the other (`TwiceIsNotTakenByOne`); a
  further role given on the staff page unties a branch administrator
  (`FurtherRoleUnties`).
* **Memos:** publishing to all notifies nobody (`EverybodyIsNobody`), groups hide
  branches (`GroupsHideBranches`), and a whole branch is told of a memo some of it
  cannot read (`ToldOfWhatOneCannotRead`).
* **Documents:** a member of a branch is shown documents that are refused on
  opening, and is not shown one's own (`ListedIsRefused`, `OwnIsNotListed`); write
  grants change nothing (`WriteGrantsAreNotUsed`).
* **Forms:** a second form of a bundle may be refused (`SecondFormMayBeRefused`);
  forms that are each other's parents cannot be sent (`RoundOfParentsIsStuck`); a
  listed ticket does not open (`ListedTicketDoesNotOpen`).
* **Inventory, weekly reports:** an overlapping adjustment is lost and a fall below
  the limit is not told (`AdjustmentIsLost`, `FallIsNotTold`); the check for a
  week's report knows the tenant, the index does not (`LookKnowsTheTenant`,
  `OneWeekInOneTenant`); weeks may share days (`WeeksMayShareDays`); a reviewed
  report stays REVIEWED when it is changed (`ReviewedAndChanged`).
* **CBT reports:** a teacher who leads a class has in the figures results of an exam
  whose report is refused (`InFiguresButRefused`), and one who made an exam sees
  neither without a staff record (`MakerNeedsStaffRecord`); a class's average is the
  mean of its students' averages, an exam's that of its results
  (`ClassAverageWeighsStudents`).
* **Changes of address:** two overlapping requests give a user, or an address, two
  pending ones (`ClaimedTwice`); one rejected while it is approved reads REJECTED
  with the address changed (`RejectedAndApplied`); one whose address was taken since
  blocks its user until it is rejected (`TakenSince`).
* **Chat groups:** a creator who left still manages the group and is answered 403
  after the change was made, which nobody is told (`OneCallAnswers`); a group whose
  last member is removed stays (`EmptyGroupStays`); an administrator may keep a role
  that is being taken from him (`DemotedKeepsRole`); somebody is added to a group
  that is then deleted (`AddedToTheGone`); two users get two direct conversations
  (`DirectIsFound`); a document no picture uses is left (`PictureIsLeft`); whoever
  has the beginning of a longer name is mentioned with it
  (`LongerNameMentionsShorter`).
* **Rate limit:** up to 2 max - 1 requests pass in a window that lies across two
  buckets (`NearlyTwiceIsReached`).
