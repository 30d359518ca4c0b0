# A verification project for hr-api

hr-api is the back end of a recruiting platform: a NestJS application over PostgreSQL
(TypeORM, default isolation READ COMMITTED), Redis, Google Cloud Pub/Sub and an S3-compatible
object store.  These TLA+ modules model the parts of it in which concurrent requests, partial
failures, expiring keys and redelivered messages decide whether the data stay right; TLC checks
them on small instances and TLAPS proves the main results for every instance.

Paths below are relative to the repository's `src/src/`.

## 1. What runs concurrently

* Every HTTP handler is an `async` function. Between two `await`s it runs alone in its process;
  at every `await` any other request may run, and several processes may serve requests. A model
  therefore has a set `Requests`, and one action per stretch of code from one await to the next.
  What a request has read is in its local variables and may be stale.
* Most handlers use no transaction. `Repository.save(entity)` compares the entity with the row
  of the same id, writes the columns that differ and inserts the row if it is gone; since the
  comparison only saves a redundant write, the models treat a save as one step that writes the
  entity's columns as they were read.
* Where there is a transaction (`dataSource.transaction`), other requests do not see its writes
  before its commit, and the rows it has written or read with `pessimistic_write` are locked
  against other writers. A throw or a dead process rolls it back.
* Unique constraints hold at every statement: the second of two conflicting inserts fails.
* Two statements are one step where another request between them leads to nothing new.
  `removeMember` deletes by the id it has found: a row changed in between is deleted as it is,
  one removed in between is not there, and no row of another role ever becomes the owner's.
  `updateResumeParsingStatus` updates by id a row it has found: if it is deleted in between,
  this looks like a deletion right after. `linkAccount` finds the user and then the identity: a
  closing in between is one right after. `syncCandidateSkills` finds and inserts in its transaction:
  a category deleted in between is one deleted right after the commit, and a change of the
  list in between is an overlap, after which nothing is claimed of the list.
* Pub/Sub delivers at least once, to any process; Redis keys expire by themselves.

## 2. Inventory

| Component (source) | State | Operations | Hard behaviour | What makes it correct | Modelled |
|---|---|---|---|---|---|
| Job postings (`app/modules/jobs`) | job rows: status, capacity, deadline, counter | create, update, publish, close, delete, reopen, duplicate | status decided on a row read before; update and publish commit separately | a closed job is reopened before it is published; a copy starts afresh | `JobApplications` |
| Applications (`app/modules/applications`) | application rows, `applications_count`; stage, histories, score | create, updateStage, updateScore | many candidates for the last place; the company changes the job meanwhile | no application beyond the capacity, the deadline or the end of the job; the counter is exact; nobody applies twice | `create` in `JobApplications`, `updateStage` in `HiringPipeline`, `updateScore` in `ApplicationRecords` |
| Companies and membership (`companies`) | companies, member rows with `is_active`, invitations, `users.role` | create, findMine, switch, add/update/remove member, invite, accept, revoke, branding, deactivate, delete | reads, decisions and saves in separate statements; two transactions on one row | one active company per user; the owner stays; a grant has a membership behind it | `CompanyMembership`; branding in `ProfilePictures`, status changes in `JobApplications` |
| Pub/Sub delivery (`libs/pubsub`, `libs/redis`) | messages at the broker, deduplication keys | publish, callback with SET NX, ack, nack | redelivery during or after a handler, expiring key, crash | one run per key; no loss without a failure; every message settles | `PubSubDelivery` |
| Mail (`libs/mail`) | none of its own | worker sends, errors swallowed | a failed mail is acked | as above | handler of `PubSubDelivery` |
| Stored files (`libs/storage`) | file rows, objects | upload, delete by id and by URL, compress in the background | row and object written one after the other; compression saves after a delete | row and object exist together; a deleted file stays deleted | `StoredFiles`, in the services that call it |
| Sign-in sessions (`auth/auth.service.ts`, `libs/jwt`) | Redis keys for pending registrations and passwords, reset and refresh tokens | register, verifyOtp, setupPassword, login, refresh, logout, forgot/reset, change password | get, compare, delete on keys that expire; several tabs refreshing | nothing happens without its code; no refresh after a revocation | `Accounts` |
| One-time codes (`libs/otp`) | `otp:` keys | generate, verify | three calls per verification | a code belongs to the address it was sent to | `Accounts`, `OAuthAccounts` |
| OAuth accounts (`auth/oidc-auth.service.ts`) | linked identities, state keys, e-mail completions | begin, callback, complete e-mail, link, unlink | callback twice; link and unlink at once | one holder per identity; always a way to sign in; never connected by an address alone | `OAuthAccounts`, implementing `IdentityLinks` |
| Users (`users`) | user rows | create, activate, change e-mail or password, enable a profile, close | unique e-mail across pending, active and closed users | one account per e-mail; closing takes effect | `Accounts` |
| Pipeline stages (`pipeline-stages`) | stages per company, application stage | read (creates defaults), replace, move application | replace while an application moves; opposite lock order | an application is always in a stage of its company; no stage twice | `HiringPipeline` |
| Interviews (`interviews`) | interview rows | create, addFeedback | membership looked up before the write; the DTO names the company | recorded by staff of the company | `ApplicationRecords` |
| Resumes (`candidate/candidate-resume`) | resume rows, default flag, files | upload, setDefault, delete | deletion of an object inside a transaction; reads of the default before it is written | at most one default; a row has its file | `ResumeLibrary` |
| AI gateway (`ai-integration`, `ai-gateway`) | Redis lock per operation, parsing status, suggestions | extract under a key, report, propose, delete a proposal | a lock that expires while its owner works; a run that dies | one run at a time per key; a status has a reason | extraction and proposals in `ResumeLibrary`; the recruiter's queries change no table |
| Candidate profile (`users`, `portfolio`, `candidate/*`) | avatar, portfolio, dated entries, skills | create, update, remove, sync | patches checked against a row read before; three orders of file and row | pictures exist; dates are in order; the list is the one asked for | `ProfilePictures`, `DatedEntries`, `SkillLists` |
| Conversations (`messages`) | conversations, messages, read marks | create, send, markRead | look up, then insert | a job is proposed once | `Conversations`: create and proposals |
| Reference data (`platform-references`) | catalogue items, import files | import, upsert, disable | file, rows and clean-up one after the other | an item's source can be read | `ReferenceImports` |
| Audit logs, analytics, search, localisation | rows | appends, queries | none | - | not modelled |
| HTTP layer, guards, configuration | none | validation, authentication, wiring | none | inputs are validated DTOs | in the inputs of the models |

Interactions: jobs read the membership (`JobsService.membership`) and the status of the company;
applications lock the job and read the company; interviews and scores read the membership; most
handlers publish e-mails; storage publishes compression messages; portfolio, profile, branding, resumes and
imports store and delete files; password and account changes revoke refresh tokens; the e-mail
that an invitation was sent to ties invitations to accounts made later.

`PROJECT.json` lists every component with its status and, under `hazards`, the places in the code
where these behaviours bite, each with the property that covers it or a note on why none does.

## 3. The modules

| Module | Role |
|---|---|
| `JobAdmission` | abstract specification: what the job board promises about one posting |
| `JobApplications` | `JobsService` and `ApplicationsService.create`, step by step |
| `CompanyMembership` | `CompaniesService`: creation, switching, members, invitations |
| `HiringPipeline` | `PipelineStagesService`, `updateStage`, and the stage `create` chooses |
| `PubSubDelivery` | `PubSubService`, the broker and the deduplication keys |
| `Accounts` | `AuthService`, `UsersService`, `OtpService`, `JwtTokenService` over PostgreSQL and Redis |
| `IdentityLinks` | abstract specification: what connecting an identity promises |
| `OAuthAccounts` | `OidcAuthService`: attempts, callbacks, completions, link and unlink |
| `StoredFiles` | `StorageService`, as steps of the requests that await it |
| `ResumeLibrary` | `CandidateResumeService` and AI extraction; extends `StoredFiles` |
| `ProfilePictures` | portfolio thumbnails, avatars, logos, and the compression worker; extends `StoredFiles` |
| `ReferenceImports` | `PlatformReferencesService`; extends `StoredFiles` |
| `DatedEntries` | experiences, certificates, educations |
| `SkillLists` | the catalogue of skills and a candidate's list |
| `Conversations` | conversations and job proposals |
| `ApplicationRecords` | interviews, feedback and scores beside memberships |
| `RecordServices` | composition of the six services above |
| `..._proofs` | the theorems about the module of that name (section 5) |
| `MC...` | symmetry and the constants of the instances TLC checks |

Several modules have *history variables*: no code reads or writes them, and no guard depends on
them. They record that something the code lets happen has happened (two requests overlapped, one
failed between two writes), so that a property can say *exactly when* it is lost instead of
being given up. Each is introduced by `history:` in its module (`founder` and `joined` in
`CompanyMembership`, `asked` and `entered` in the locals of `OAuthAccounts`, `draft.source` in `ReferenceImports`
are of the same kind).

### JobApplications

`status`, `capacity`, `applyBefore`, `count` and `applications` are the columns and rows other
handlers decide on; `companyStatus` is the column `create` reads without a lock. `pc`, `job`,
`applicant` and `seen` are a request's position and local variables; `rowLock` is the lock of
`SELECT ... FOR UPDATE`.

* `create` is `ApplyLock` (the transaction locks the row), `ApplyCheck` (company, deadline,
  capacity), `ApplyLookup` (earlier application, profile, resume, first stage), `ApplyInsert`
  (insert, increment, commit), with `ApplyReject` for every throw.
* `publishJob`, `reopenJob` and `duplicateJob` read in one step and write in another; `closeJob`
  and `deleteJob` write whatever the status. `updateJob` commits its columns (one step, at its
  commit) and then goes on into `publishJob` or `closeJob`.
* A plain `UPDATE` of the row waits for `rowLock` (`SaveStatus`, `UpdateJob`).
* `SetCompanyStatus` is `deactivate`, `reactivate` and `scheduleDeletion`, which may happen at
  any moment. `Crash` ends a handler anywhere.
* Rejected requests that change nothing are not separate actions. Queries and the data of a
  posting (titles, salaries, skills) are left out; the caller's right to manage the job, checked
  before, is left out as well: whoever may act, acts.

### CompanyMembership

`role`, `rowId` and `active` are the membership rows; `rowId` is there because `updateMember`
may re-insert, under its old id, a row removed since it was read. `founder` is not a column: it
records which user created the company. `joined` is a history variable. An e-mail address is the user
it belongs to, now or after registration. A `lapsed` invitation is a pending row whose
`expires_at` has passed.

* The transaction of `create` and `switchActiveCompany` is `Scan` (the UPDATE finds its rows in
  its snapshot), `Lock` (it had to wait; rows no longer active drop out), then `CommitCreate` or
  `CommitSwitch`. `findMine` of an owner without an active company calls `create`.
* `addMember` is `AddLookup`, `AddInsert`, `SetUserRole`, or `InviteLookup`, `InviteSave` when
  there is no such account; `updateMember` is `UpdateRead`, `UpdateSave`, `SetUserRole`;
  `acceptInvitation` is `AcceptRead`, `AcceptLookup`, `AcceptExist`, `AcceptInsert`,
  `SaveStatus`, `SetUserRole`; `revokeInvitation` is `RevokeRead`, `SaveStatus`.
* `Fail` ends a request at any await: a unique violation, a thrown check, a lost connection,
  a dead process. What was committed before stays.
* The authority checks (`assertCanManage...`) are left out: by `OwnerStays` somebody may always
  act, so every action is one that some caller may take.

### HiringPipeline

`stage` holds the stage rows, `used` the ids ever given out, `applied` and `placed` the
application rows with their `stage_id`, `history` the number of rows in
`application_stage_history`; `req` is the position and the local variables of each request.

* `getCompanyStages` is `GetRead`, `GetCheck` (it looks again inside the transaction), and
  `GetInsert` (defaults, applications without a stage, commit), refused by
  `UNIQUE(company_id, name)` if another reader was first.
* `updateCompanyStages` is one transaction: `PutScan` (the DELETE finds its rows), `PutLock` (it
  has the rows, after waiting for whoever holds them or their applications), then `PutRename`,
  `PutInsert` or `PutNothing` with the commit. The UPDATE names a row by its id alone, so
  the list may name any stage there is.
* `updateStage` is `MoveRead`, `MoveUpdate` (locks the application, and through the foreign key
  the stage), `MoveCommit`; `create` is here `ApplyRead`, `ApplyInsert`.
* What an open transaction has locked is in `doomed` (a replacement at `put_write`) and in
  `app`, `stage` (a move at `move_commit`); `ON DELETE SET NULL` empties the stage of an
  application at the commit of the deletion.
* A replacement gives at most one name, and the order of stages is abstracted: any stage of the
  company may be its first. `MaxMoves` bounds the history.

### PubSubDelivery

`queue` and `attempts` are the broker's, `dedup` is the key of a message in Redis, `at` and
`msg` are the callbacks in progress in any process. `windows` counts the expiries of a key,
`done` how often the work took effect, `failed` whether a delivery ended without it. The
handler is a parameter: `SwallowsErrors` is TRUE for `MailService.send`, FALSE for
`StorageService.compressFile`. A message may be delivered again while a callback still works on
it (its lease ran out), an ack may be lost, a key may expire at any time, a callback may die.

### Accounts

`account`, `ticket`, `otp` and `session` are rows and Redis keys; `req` is the await a request is
at, the row it read (`copy`) and its ticket. Closed accounts keep their row and e-mail: finds do
not see them, UPDATEs by id do.

* Registration is `Register`, `TicketSet`, `OtpSet`; `VerifyOtp`, `OtpGet`, `OtpDel`, `Create`, `TicketDel`;
  `SetupPassword`, `Activate`. Sign-in and refresh are `Login`, `Refresh`, `RefreshFind`,
  `OpenSession`, `Touch`, `Store`. `Logout`, a new password (`Revoke`, at its end) and
  `CloseAccount` (at its beginning) delete the refresh token.
* A password change is `AskForCode`, `ConfirmOtp`, `TokenSet`, `NewPassword`, `WritePassword`,
  `TokenDel`; an address change `UpdateEmail`, `WriteEmail`; closing `CloseAccount`,
  `Close`; a second profile `EnableProfile`, `ProfileSave`.
* `Expire` drops any key at any time; `Fail` ends a request at any await. A refresh token is
  compared through a bcrypt hash, which reads 72 bytes of it: the model does not tell two tokens
  of one user apart, so `session` is the set of users whose key exists.
* `witnessed` records for each request that its code was entered, or that its user's session was
  revoked or the account closed while it was in progress.

### OAuthAccounts

`linked` holds the rows of `oauth_accounts`, `state` the attempts, `ticket` and `otp` the pending
completions and their codes, `lock` the `FOR UPDATE` of `unlink`. What the provider answers is
any identity, with or without an address.

* A callback is `Callback`, `StateDel`, then by what the identity is a session (`LinkedFind`),
  a connection (`LinkFind`, `LinkInsert`) or a completion (`CompleteLater`).
* A completion is `RequestEmail`, `PendingSet`, `OtpSet`, then `VerifyEmail`, `OtpGet`, `OtpDel`
  and `LinkFind`, `LinkInsert` or `Create`, and `TicketDel`.
* `Unlink` locks the user row, `UnlinkFind` and `UnlinkCount` read its identities, and
  `UnlinkRemove` removes one and commits.
* With the mapping `holder <- linked`, `secret <- ` the users with a password, it implements
  `IdentityLinks`.
* `disturbed` are tickets on which two requests overlapped or one failed half-way: between the
  writing of the address and of the code a ticket may hold an address and a code for another.

### StoredFiles, ResumeLibrary, ProfilePictures, ReferenceImports

A stored file is an object (`object`) and a row (`record`). The operations of `StorageService`
are steps that a handler enters with a label `then` to return to, so each caller
keeps its own order of file and row:

* `ResumeLibrary`: `Upload` stores the file, then `DefaultFind`, `InsertResume`; `SetDefault`
  and `DeleteResume` are transactions with row locks (`rowlock`), and the deletion awaits the
  object store inside its own. `FailInsert`, `Fail` and `Crash` end them anywhere. Extraction
  is `Extract` (SET NX of the key), `Download`, `StatusUpdate`, `Audit`, `Ask`, `Propose`,
  `KeyDel`, `FailRun`; `ServiceStatus` is the AI service's own report, `DeleteSuggestion` the candidate's.
* `ProfilePictures`: a portfolio item or a logo is stored, the row saved as it was read, and the
  picture it showed deleted; a removed item loses its row first and its picture second; an avatar
  is stored, the previous one deleted, and the user updated last. `SetLogo` is
  `PATCH /companies/:id`, which writes any string as the logo: nothing or an address elsewhere, or
  the URL of any file that was ever stored, be it deleted or the picture of another row. An avatar
  or a thumbnail can only be uploaded: the DTOs admit no URL. `Compress` is a delivery of
  `image.compress`, which may come at any time, twice, and after the deletion.
* A file is addressed by its key (`deleteFile`, compression) or by the URL it was given
  (`deleteByUrl`). `getPublicUrl` percent-encodes the key, whose extension is that of the client's
  file name, and `deleteByUrl` does not decode it. `Escaped` are the files whose URL is therefore not
  their key: `UrlObject` and `AvatarPrevious` leave their objects where they are (`WithoutUrl`),
  while `UrlFind` finds their rows, which hold the whole URL.
* `ReferenceImports`: `ImportWorkbook` stores the file, the transaction writes item after item
  (`draft`), `ImportFail` deletes the file again. `UpsertFind`, `DisableFind`, `ItemSave` are edits by hand.

### DatedEntries, SkillLists, Conversations, ApplicationRecords

* `DatedEntries`: an update of an experience writes the columns of the patch (`EntryUpdate`), a
  certificate saves the merged row and inserts it again if it was removed (`CertificateFind`, `CertificateInsert`),
  an education checks nothing.
* `SkillLists`: `SyncFind`, `SyncDelete`, `SyncInsert` replace the list in a transaction; deleting
  a category cascades to its skills and from them to the list.
* `Conversations`: `ConversationFind`, `ConversationInsert`, `ProposalExist`, `MessageInsert`.
* `ApplicationRecords`: `CreateInterview`, `AddFeedback`, `UpdateScore` find the membership and
  write in a later statement, while `JoinsStaff` and `LeavesStaff` change it. The company of an
  interview is the one the DTO names.

The rows of these services are disjoint, so a behaviour of `RecordServices` is about one
`subject`: an entry, or all pictures, the list, the catalogues, the conversations or the
applications. Nothing is lost by that, as no property of theirs relates rows of two subjects. The
pictures are one subject because a company may be given the URL of any of them.

## 4. The runs

| Run | Instance | Question | Outcome |
|---|---|---|---|
| `job_applications` | 2 jobs, 2 candidates, 2 requests, capacities 1 and 2, 2 clock values | Is the counter exact, is the checked row still the row at the insert, and is every application one that `JobAdmission` admits? | hold, 736 thousand states |
| `job_applications_live` | the same, capacity 1, no deadline | Does every request end? | holds, 52 thousand |
| `job_publish_race` | 1 job, 2 requests | Is a closed job only published after being reopened? | violated: `closeJob` between the read and the write of `publishJob` is undone |
| `company_membership` | 2 users, 2 companies, 1 invitation, 2 requests | Has everybody at most one active company, does its owner stay, has a grant its membership? | hold, 1.8 million |
| `company_invitation_race` | 2 invitations, 2 requests | Is there one pending invitation per address and company? | violated: two look-ups before either insert |
| `hiring_pipeline` | 1 application, 2 companies, 3 stage ids, 2 names, 2 requests, 1 move | Is an application always in a stage of its company, is every move on record, and is the default pipeline created once? | hold, 348 thousand |
| `pubsub_delivery` | 2 messages, 2 callbacks, 3 deliveries, swallowing handler | One run per key, no loss without failure, every message settles | hold, 183 thousand |
| `pubsub_loss` | 1 message, rethrowing handler | Is a message whose handler throws redelivered, as the document says? | violated: its key is still there, the redelivery is acked as a duplicate |
| `accounts` | 2 users, 2 addresses, 1 ticket, 2 requests | One account per address, nothing without its code, revoked and closed stay so | hold, 338 thousand |
| `oauth_accounts` | 2 identities, 2 users, 2 addresses, 1 attempt, 1 completion, 2 requests | `IdentityLinks` implemented, no connection by address alone, codes fit addresses | hold, 626 thousand |
| `resume_library` | 1 candidate, 3 files, 1 key, 2 requests | One default, files match resumes, one run per key, a status has a reason | hold, 483 thousand |
| `record_services` | one row of each kind, 3 files of which one has an escaped URL, 2 items, 2 dates, 2 skills in 2 categories, 2 partners, 1 job proposed at most twice, 1 application, 2 companies, 2 users, 1 interview; 2 requests | Files in use exist and no others are kept, deleted stays deleted, dates in order, lists as asked, one proposal, recorded by staff | hold, 479 thousand |

The three violated properties state what an error message of the code or a document of the
repository says; `PROJECT.json` quotes them under `findings`.

**Why the bounds suffice.** Every race here is between two requests on one row: two requests put
every pair of steps in every order. Two jobs let a copy be told from its source; capacities 1 and
2 with two candidates reach "full", "one place left" and a capacity lowered below what is
admitted; two clock values put the deadline before and after every step. Two users and two companies
let one user switch between companies while another is invited. A second company with stages of its own
makes a stage of the wrong company possible, and three stage ids a deletion, its replacement and a
move between two others. Three deliveries allow an overlap, an expiry and a redelivery. Two addresses and
two users let an address change hands between an attempt and its code; one ticket is used again when nobody remembers it.
Two identities are the fewest with which one may be disconnected. Three files are a default, its
successor and a new one. Two dates make a wrong order possible, two skills a list that mixes two
requests. `MaxTime`, `MaxMoves`, `MaxDeliveries` and `MaxProposals` are the bounds on counters;
`DuplicateOutOfIds` ends a duplication for which the instance has no identifier left.

**Constraints.** They leave the specification as it is and cut what TLC follows:
`DeactivatedStandsForBoth` (job applications) treats the two statuses `create` refuses alike as
one; `OneGrantOrRemoval` (membership) follows one role grant or removal at a time beside the
other request; `AttemptsBeginLate` (OAuth) drops the orders in which an attempt waits while every
request is busy elsewhere, as it could begin later; `Followed` (resumes) drops
extractions of a second resume, or beside a default that has been raced for; `OneRowOrPasted` (records)
follows the pictures of one row at a time, until a company was given the URL of a file: that pictures of different
rows do not meet before is `OneRowEach`, which is proved; `NoEscapedWorkbook` leaves the file with
the escaped URL to pictures, as imports delete by key; `OneThingGoesWrong` (resumes) and
`FewThingsGoWrong` (records) follow what happens after one or two of the exceptions that the history variables record
until there is another, since by then the properties except what has happened. The proofs of section 5 need none of them.

**Exceptions.** What the history variables except is what the code permits, and is worth a
reader's attention: two concurrent changes of the default resume (`raced`), a deletion through
`/files` of a resume's file and a request cut off between row and object (`strayed`), a run
that dies while PROCESSING (`stuck`) or outlives its key (`outlived`), a save without a
picture that writes an older one back over a newer (`reverted`), an avatar whose update fails after
the previous one was deleted (`lost`), a file whose URL a company was given by hand (`pasted`), objects
left by failed requests and by saves over a picture they had not read (`left`, `stray`), objects
whose URL is not their key (`Escaped`, once their deletion is complete), a file deleted while it is compressed, which comes back
(`crossed`), an import file deleted by its owner (`withdrawn`), two patches of one entry
(`skewed`), empty dates that are not checked (`unchecked`), overlapping changes of one list
(`asked = Unknown`), overlapping proposals (`repeated`), a member removed between the check and
the write (`overtaken`), overlapping completions of one ticket (`disturbed`).

**Fairness.** `job_applications_live` assumes strong fairness of a request's own next step: Node
runs the continuation of every settled await, and PostgreSQL serves the waiters of a row lock in
a queue, so a waiting UPDATE is not passed over for ever. Nothing is assumed of clients, of the
clock or of crashes. `pubsub_delivery` assumes weak fairness of every callback (the same
argument) and of the dead-letter policy, and strong fairness of the delivery of a waiting message:
Pub/Sub keeps redelivering it, but a callback must be free when it does, and other messages
compete for the callbacks. A deadlock is an error in every run except the two of `PubSubDelivery`,
where a topic with every message settled has nothing left to do.

## 5. The proofs

All theorems hold for every value of the constants that satisfies the named assumptions of the
modules: finite sets of candidates, companies, requests and callbacks where a counter needs them, `None` different from real
values, positive capacities and delivery limits, and `COMPANY_OWNER` not among the roles a DTO may grant.

* `JobApplications_proofs`. `CountMatchesApplications` is not inductive alone: that the insert
  adds a new candidate needs the request's locals to be real (`RequestsOnRows`), and that a new job
  starts at zero needs `AbsentJobIsEmpty`. The refinement needs the argument the code rests on:
  the row checked by `create` is still the row when it inserts (`LockedRowIsCurrent`), it had room
  (`CheckedRowHasRoom`), and the counter it compared is the true number. With `IInv` every
  step maps to `Admit`, `Manage` or `Create` of `JobAdmission`, or to a stutter. Theorems:
  `TypeCorrect`, `CounterIsExact`, `RowLockProtects`, `AdmissionRefined`.
* `CompanyMembership_proofs`. `IInv` says what rows mean (`RowsAreMemberships`), that the index
  keeps active rows unique (`ActiveIsUnique`), that open transactions hold different rows
  that nobody else has changed (`LocksAreExclusive`, `LockedRowsAreActive`), and what each request's locals still guarantee of the tables at
  each await (`LocalsStayTrue`): a role it is about to save is never the owner's and never
  for the owner's row, an invitation it is about to settle is for the member it has made. The key
  lemma, `RequestsStayTrue`, shows that no step of one request falsifies what
  another knows, because founders, memberships on record and addressees never change. Theorems:
  `MembershipTypeCorrect`, `SingleActiveCompany`, `OwnerNeverLost`, `GrantsAreBacked`.
* `HiringPipeline_proofs`. The stage a request has read is only an id when it is used: what
  makes it safe is that ids are never given out twice, so the row is still the one that was
  checked or it is gone, and that the foreign key refuses a row that is gone. `IInv` says so
  (`LocalsStayTrue`) and adds that no open deletion holds the stage of an open move
  (`SharedStagesStay`). Theorems: `PipelineTypeCorrect`, `StagesAreOwn`,
  `StageNamesStayUnique`, `MovesLeaveARecord`.
* `PubSubDelivery_proofs`. Runs of the handler are counted with `Cardinality`; the loss property
  is strengthened by `KeyIsAccountedFor` (a key or an ack has a run, an effect or a failure
  behind it). Theorems: `DeliveryTypeCorrect`, `AtMostOncePerWindow`,
  `NothingLostWithoutFailure`.
* `Accounts_proofs`. `IInv` is the type, what each request's locals still guarantee at each await
  (`LocalsStayTrue`: it has the user, address and ticket its label needs, and what has happened
  to it since it looked is in `witnessed`), that keys have rows behind them (`KeysHaveRows`), and that
  an e-mail has one row, closed ones included. No row ever disappears, so a stale read still
  names a user; what it says of that user may be over, and `witnessed` is how it is over. Theorems: `AccountsTypeCorrect`, `EmailsStayApart`,
  `RefreshesAreOnRecord`, `NothingWithoutACode`, `ClosedStaysClosed`; with them, every
  property of the run `accounts` holds for every instance.
* `OAuthAccounts_proofs`. `IInv` adds what a callback, a completion and an unlink know of the
  tables (`HasLocals`, and `UnlinkKnows`: the lock makes what `unlink` has counted still true when it
  removes), and that on an undisturbed ticket the code was mailed to the address the ticket
  holds (`TicketFits`). `RequestsStayTrue` and `CodesStayFit` show that no other request falsifies
  them. Theorems: `OAuthTypeCorrect`, `AddressesDoNotConnect`, `CodesAreForTheirAddress`,
  `LinksImplemented` (the refinement of `IdentityLinks`).

* `ResumeLibrary_proofs`. Five invariants, each used by the next.
  * `TInv`: types, and the local variables the next steps of each request use (`HasLocals`).
  * The keys: a run holds its key from `Extract` on, so `OneRunPerKey`, which says of every run
    that its key is held or has outlived it, is inductive.
  * `SInv`: a run that is about to write COMPLETED has saved its proposal
    (`ProposalsAreSaved`); nothing else behind `StatusHasAReason` can be lost without being noted.
  * `FInv`: objects are only put under new keys, and rows of resumes only follow rows of files
    (`FilesAreKept`); what a request knows of its file at each await (`KnowsFiles`); nobody but a
    run works on a file that is being uploaded (`UploadsAreAlone`). With these every file that is
    not known to be stray is in order or has one request that will settle it (`FilesSettle`).
  * `DInv`: which rows a request may still change (`KnowsOwners`), and that the default it has
    read is the default until it writes (`KnowsDefault`), because the requests of a candidate
    not in `raced` come one at a time (`ChangesAreAlone`). Without `KnowsDefault`, `OneDefault` says
    nothing about the second of two updates, and is not inductive.

  Theorems: `ResumeTypeCorrect`, `KeyAdmitsOneRun`, `StatusesAreJustified`,
  `FilesComeAndGoTogether`, `CandidatesHaveOneDefault`.
* `RecordServices_proofs`. The rows of the services are disjoint, so each service has an invariant
  of its own that a step of another leaves alone.
  * `EntriesInv`: what a request will write to an entry is in order together with what is there
    (`WillBeInOrder`), if no other patch of it is under way (`PatchesAgree`).
  * `SkillsInv`: a sync that is alone has found all it must delete.
  * `MessagesInv`: between the look for a proposal and its insert there is none, if no other
    request is about the pair.
  * `NotesInv`: who is about to write is on the staff, or was and has left since (`NotingKnows`).
  * `FilesInv`, for pictures (`PicturesInv`). Objects are only put under new keys, and what rows and
    requests refer to was recorded (`FilesAreNew`). What has been erased stays away, but for
    what met a worker and for the objects of escaped URLs (`ErasedStayAway`). A file whose URL was not
    given by hand is one row's (`OneRowEach`), and until a row shows it, one request's
    (`StoredStay`): without that a deletion for one row could take what another is to show. A file
    that a request, which has written over it, is about to delete is no longer what its row
    shows (`ShownInv`), and every file is shown, stored by a request that will show it, or away:
    deleted, being deleted or excepted (`KeptInv`). These need each other: `ShownInv` needs `OneRowEach` and
    `StoredStay` when another row's file is erased.
    For imports `IInv` says the like of workbooks (`WorkbooksAreNew`, `WorkbooksStay`). There are many
    steps and most of them move one request and one file, so what a step must leave alone is stated
    once (`Keeps`, `ImportsKeep`), proved to preserve the invariant once, and then established for
    each step. `SetLogo` moves no request and is proved by itself (`SetLogoKept`).

  Theorems: `RecordsTypeCorrect`, `FilesInUseStay`, `OnlyFilesInUseStay`,
  `DeletedFilesStayDeleted`, `DatesStayInOrder`, `SkillsStayAsAsked`, `JobsAreProposedOnce`,
  `StaffKeepsRecords`.

With these, every invariant, action property and refinement that a passing run checks is a theorem
for all instances. The TLC runs bound and constrain their instances (section 4); the theorems do not.
The assumptions added for the last two modules (`NoneIsNoStatus`, `EscapedAssumption`, `ResumeAssumption`, `PicturesAssumption`,
`DatedAssumption`, `SubjectsAssumption`) only say that values which stand for different
things, among them the markers for nothing, are different, as they are in the database.

Only model-checked: liveness (`RequestsFinish`, `EveryMessageSettles`), which TLAPS cannot
prove; and the three violations, which are refutations. Nothing modelled computes by recursion.

## 6. Plan

1. An abstract specification of a file that is stored, used, and deleted, which `ResumeLibrary` and
   `ProfilePictures` both implement where no request fails half-way.
2. What several components share and each has a part of: the company row of `JobApplications`
   and `ProfilePictures` in one module, for the status that the stale save of `updateBranding` writes back.

Composition: `StoredFiles` has the compression as steps of a delivery, and `PubSubDelivery` says how often
and when deliveries come; `CompressFind` may therefore begin at any time and again. `HiringPipeline`
repeats of `create` only what concerns the stage; the admission is `JobApplications`'.
`OAuthAccounts` opens sessions as `Accounts` does and does not repeat them. `ApplicationRecords`
lets memberships come and go; what makes them do so is `CompanyMembership`.

## 7. Not modelled

Audit logs, analytics, search and localisation are single statements on rows nobody else decides
on, or queries. Templates, providers, the object store's and the AI service's own behaviour are
external. Tokens and codes are not guessed. Company and user columns nobody decides on, the public
team, notification preferences, chat messages other than proposals, their read marks, and the
recruiter's AI queries (which hold the same lock around a call that changes no table) are left
out. Of the strings a client may send as a logo, those that name a stored file in another way than by the URL it
was given (the key not encoded, a query appended) and those that name a workbook or a resume are left
out. The HTTP layer is in the inputs. A COMMIT whose outcome the client does not learn is
either a commit followed by a failure or a rollback. How TypeORM maps entities, and PostgreSQL
itself, are taken as described in section 1.

## 8. Observations

Met while modelling; no run is about them.

* `UsersService.closeAccount` soft-deletes the row and then returns through `update`
  (`users.service.ts:237`), which finds no deleted rows and throws: a request that has closed its
  account gets an error. `docs/README.feature-settings-login-details.md:86` says 200.
* Patches of experiences with `null` or `''` dates skip `validateDates`; a certificate patch
  without `issueDate` throws; an education patch without `endDate` erases it.
* `updateBranding` saves the company row it read before the uploads, its `status` included.
* `deleteByUrl` does not decode the part of the URL it takes for the key
  (`storage.service.ts:199-202`), although `getPublicUrl` has encoded it (273-279): the object of a file
  named `photo.my pic` stays in the bucket when its row is deleted.
* `PATCH /companies/:id` accepts any string as `logo`: a form that was loaded before a branding
  upload writes back the URL of a deleted picture, and a URL of another row's picture makes the next
  branding upload delete that picture (`companies.service.ts:223`, `262`).
* `skill_categories.name` is not unique, and two imports may create a category twice.
* A deleted resume leaves its row in `ai_profile_suggestions` (there is no foreign key), and
  `deleteProfileSuggestion` deletes by resume, so it may delete a newer proposal than it read.
* `file.delete` has a subscriber and no publisher. Nothing sets a job's `deleted_at`.
* Interviews are not checked for overlapping times.
