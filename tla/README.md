# A TLA+ model of the Astos API

TLA+ modules, TLC runs and TLAPS proofs for the NestJS back end in `src/`: an
API for organisations that place telephone campaigns. `FSD.md` is the
functional specification the code was written from; the models are written
from the code, and the FSD is quoted where it says something the code could be
checked against. The repository has no test that exercises the services, so
everything below about concurrency is untested elsewhere.

What every model has in common: a request is an `async` handler, and between
two `await`s any other handler runs. A handler that reads a row, awaits
something and writes by id is therefore one action per statement on the
database, with what it read kept in a local record. One Prisma statement, and
one `$transaction([...])`, is one step. A statement may throw and the server
may stop at any step: what was written stays, the rest is never done.
Constants are sets of ids, columns that nothing decides on are left out, mails
and the audit log are left out (nothing reads them back).

## Inventory

| Component | State | Operations | What is hard | What makes it correct |
|---|---|---|---|---|
| Sessions and refresh tokens (`auth.service.ts`, `users.service.ts`) | `refresh_tokens`, `user_sessions`, `users.is_active`, pending `mfa_token`s | register, acceptInvite, login and its second step, refreshTokens, logout, session list, resetPassword, deactivate, activate, forceLogout | purges race with logins and rotations in flight; a rotation is three statements | a purge reaches everything it found; nothing new for an inactive account; rotation does not multiply tokens |
| Lockout (`validateUser`) | `failed_login_attempts`, `locked_until` | login | read, bcrypt, absolute write: lost updates | counter and lock agree; wrong passwords do lock in the end |
| Second factor | `mfa_enabled`, `mfa_secret`, `mfa_recovery_codes`, `mfa_email_tokens` | setup, confirm, disable, TOTP, recovery code, code by mail | the list of codes is read, changed and written back; a secret is confirmed in one statement and enabled in another; find and delete are two statements | a mailed code serves one login; a used or replaced recovery code stays void unless a stale write restores it, and serves a second login only then or in a request that had read it before; a second factor in force was confirmed |
| Addresses and links: e-mail verification, password reset, profile | `users.email`, `email_verified_at`, `password_reset_tokens` | verifyEmail, resendVerification, updateMe, forgotPassword, resetPassword | check and use are two statements; the address can change in between, and be taken by another account | a verified address was proven; a used link is dead; a reset is its owner's |
| Registration and invitations (with `users.service.ts`, `organizations.service.ts`) | `organizations`, `users`, `user_invitations` | register, organisation create, inviteUser, acceptInvite | an organisation, an account and the mark of an invitation are statements of their own; a unique index is all that stands between two handlers | no empty organisation, one pending invitation per address, one account per invitation |
| Users and access control (`users.service.ts`, `permissions.ts`, the guards and controllers) | role, `is_active`, access tokens that are out | changeRole, deactivate, activate, forceLogout; every route with a permission | a token carries the role of the moment it was signed, and no row is read for it | a demotion and a deactivation take hold; an organisation keeps an admin |
| Campaign lifecycle (`campaigns.service.ts`) | `campaigns` | create, update, remove, activate, pause, resume | status is checked on a row read earlier | no running campaign without leads |
| Lead upload | `lead_uploads`, `leads`, a promise nobody waits for | uploadLeads, processLeadUpload, status | runs after the answer, next to other uploads; stops with the server | no duplicates, counts match, the poller gets an answer |
| Leads (`leads.service.ts`) | `leads.status` | update, list, export | read, check of `dnc`, write | `dnc` is terminal (no code ever sets it) |
| Telephony (`telephony.service.ts`) | `calls`, the telephone line | placeCall | the call rings before its row exists; an error does not mean it did not ring | rings only when allowed; the row agrees with the line |
| Provider adapters | none (stubs that throw) | placeCall, hangup, transfer | answers may be lost | - |
| Compliance (`compliance.service.ts`) | `consent_records`, `dnc_registry`, `compliance_checks`, `recording_disclosures` | recordConsent, addDnc, runComplianceChecks, disclosures, audit query and export | three checks at three moments with one `now`; the old default is cleared in one statement and the new one written in another | the trail is complete before anything rings; one default disclosure of a jurisdiction and language |
| Webhooks (`webhooks.service.ts`) | `webhook_endpoints`, promises that retry | create, update, remove, rotateSecret, dispatch | retries keep what was read up to 70 s before; update and rotate overlap | a rotated secret signs nothing new; every delivery ends |
| Analytics, ai, public, audit, mail | rows nothing else reads | reads, pure functions, inserts | - | - |

How they interact: everything goes through the database, and only through it.
`placeCall` awaits `runComplianceChecks`; `activate` counts the leads that
uploads insert; `deactivateUser`, `forceLogout` and `resetPassword` write the
tables that logins and rotations write; `updateMe` moves the address that
links and invitations were mailed to, and `changeRole` the role that a token
was signed for. `TelephonyService.placeCall` and
`WebhooksService.dispatch` have no caller in the repository: the models call
them at any time. No code sets a campaign `completed` or `archived`, and no
code sets `revoked_at` of a consent, so no state of the models has them.

## Modules

| Module | Models | State and actions |
|---|---|---|
| `SessionGate` | what sessions and refresh tokens promise (abstract) | the standing of an account, the holder of a token, the good tokens, the sessions, the grants handlers hold and the promised ones. |
| `AuthSessions` | sessions and refresh tokens | rows of both tables; `req[r]` is the handler `r` at the statement it runs next. `XFind` is the read of a handler (the session list and its password included), `XCommit`/`XRevoke` its write, `Mint` the `refreshToken.create` of `generateTokens`, `CreateSession` the row after it. `lineage` is history: *fresh* until a purge of the user; then every row the purge found is *purged*, whatever it was, and a handler past its check with a row still to write is *escaped*, as is what it writes. A rotation hands on only *purged*: it is a check of `is_active` of its own. `Gate` maps it to `SessionGate`: a live row is a good token, a handler past its check (`Admitted`) holds a grant for its user, a pending JWT is a promise. |
| `LoginLockout` | `validateUser` on one account | `FindUser`, then `WrongPassword` or `RightPassword` with the values read; `LockLapses` is the clock passing `locked_until`. The counter is one value past the limit, as the code only compares it. |
| `SecondFactor` | TOTP secret, recovery codes, codes by mail of one account | `XFind` and its write; `copy` says whether what a waiting handler read was written since. Histories: `void` (used or replaced codes), `restored` (void codes a stale write brought back), `confirmed`, `crossed`, `otpLogins`. |
| `AccountLinks` | the addresses of accounts, verification links, reset links | `VerifyFind`/`Verify`, `UpdateFind`/`Update`, `ForgotFind`/`ForgotDelete`/`ForgotCreate`, `ResetFind`/`ResetUser`/`Reset`: one action per statement. A verification link is its HMAC's arguments, an account and an address. Histories: `proof` (what there is to say for the present address), `had` (the addresses of each account), `spent` (links older than a reset). |
| `Membership` | registration, organisations, invitations | `RegisterFind` (the user), `RegisterFindOrg`, `FoundOrganization`, `CreateFounder`; `InviteFind` (the member), `InviteFindPending`, `SendInvite`; `AcceptFind` (the invitation), `AcceptFindUser`, `CreateInvited`, `MarkAccepted`. `late` in a handler says that what it looked for and did not find was inserted since. Histories: the invitation that made an account, and what stopped halfway. |
| `AccessControl` | roles, access tokens, permissions of routes | `PERMISSIONS` and a function from handler to permission for each controller; `CanActivate` is the guard. `Mint` signs what `LoginFind`, `MfaFind` or `RefreshFind` read; `ChangeRole`, `Deactivate`, `Activate` write by id; `Serve` is any other write of a route. |
| `Disclosures` | the default disclosure of a jurisdiction and language, which is the key the code clears by | `Clear` (updateMany), then `Insert` or `Update`; `how` is history: how each row became a default. |
| `CampaignLifecycle` | status handlers of `campaigns` | `Find(h, c, op)` is the read and the check of the status, `CountLeads` the count of `activate`, then one write each. |
| `LeadUpload` | `uploadLeads` and its worker | `Accept`, then for each row `CheckRow` (validation and lookup) and `InsertLead`, then `Complete`; `Throw` and `Catch` are the `try` block, `Lose` a stop of the server. A CSV is a sequence of numbers and invalid rows. |
| `CampaignService` | both of the above over the same `campaign` and `lead` | instances `L` and `U`; a step is a step of one. |
| `CallGate` | what `placeCall` promises (abstract) | a verdict, the providers that rang, and the status of the row. |
| `CallPipeline` | `placeCall`, `runComplianceChecks`, `recordConsent`, `addDnc` | `Lookup` and `Judge` for each check, `PutThrough` and `Answer` or `AdapterThrows` for a provider, then one row. `PutThrough` is the provider (external). The clock counts quarters of an hour in UTC; `Offset` is what `Intl.DateTimeFormat` knows of a zone, at each moment (summer time), and `Hour` is the hour there, or the hour in UTC for a name that is no zone: nothing validates `schedule_timezone`. `by` joins a row of the trail to its call for the properties only; in the table `call_id` is null (FSD line 903). |
| `WebhookDelivery` | endpoints and deliveries | `FindOne` and a write; `DispatchFind` is the look-up of the active endpoints, `DispatchStart` the first attempt with what it found; `Ok`, `Fail`, `Wake` are one attempt, `Crash` loses what runs. The code makes two retries (see `FailedAfterThreeRetries` below). |
| `MC*` | instances for TLC | symmetry, the two CSV files, the two zones. `MCLockoutDisclosures` lets each of its two modules move while the other is as it was in the beginning: the states of the two add up. |
| `*_proofs` | theorems | see below. |

Definitions called "Seeded fault" are what the code would be with a plausible
bug; nothing in a specification uses them. `PROJECT.json` pairs each with the
property that notices it.

## Runs

| Run | States | What it shows |
|---|---|---|
| `auth_sessions` | 1 747 783 (symmetric) | `ImplementsSessionGate` (refinement of `SessionGate`): whoever runs at the same time, credentials are written only under a grant, a grant is given to an active account or redeems a pending JWT, a void token stays void, and the write that makes an account inactive takes all its tokens and sessions. `PurgeReachesDescendants`: no live row descends from a row a purge found, even through rotations in flight. `InactiveOnlyEscaped`: an inactive account keeps only what had itself passed its check when the last deactivation committed, and nothing that was made from it afterwards. `OneSuccessorPerHandler`: the successors of one token never outnumber the requests that ran at once. |
| `lockout_disclosures` | 489 887 (symmetric) | `LoginLockout` and `Disclosures`, which share no row, one after the other: 29 090 states of the one and 460 798 of the other. `FullCounterIsLocked`: a counter at the limit always comes with a lock. `WrongPasswordsLock`: if wrong passwords go on and no right one comes, the account is locked again and again, whatever increments are lost. `TwoDefaultsAreLate`: two defaults of one jurisdiction and language come from handlers that overlap, or from an update that moves a default and does not mention `is_default`. The symmetry permutes values of `Disclosures` only, which the liveness property does not mention. |
| `second_factor` | 1 534 050 (symmetric) | `OtpUsedOnce`, `OneOtpPerHandler`. `VoidStaysVoid`: a used or replaced recovery code is in the row again only by the stale write of another recovery, and serves a login again only then or in a recovery that had read it before it was void. `EnabledWasConfirmed`: the secret of a second factor in force is one that a code was shown for, unless a setup or a disable ran between the read and the write of a confirmation, or the other way round (then an account can be left with a secret nobody has confirmed, or none). |
| `campaign_service` | 513 545 | `RunningHasLeads`, `DuplicatesOnlyFromOverlap` (two leads with one number need two uploads at the same time), `ReportAddsUp` (however an upload ended, its row reports the whole file or nothing: total = valid + invalid + duplicate, and what is reported valid are the leads it inserted), `UploadSettles`. |
| `calls` | 595 824 | `ImplementsGate` (refinement of `CallGate`), `RingsWereAllowed` (with the consent, the registry and the local hour of the moment the checks were given), `QueuedByWhoRings`, `CallIsRecorded`. |
| `webhooks` | 315 978 | `RotationIsFinal`, `DeliveriesSettle`. |
| `account_links` | 942 579 (symmetric) | `VerifiedWasProven`: an address is marked only when a link for it was followed, or when a change of the address came between the check and the mark of `verifyEmail`. `SpentLinksAreDead`: a used reset link and the older ones to its address are never found again. `OneLinkPerHandler`: two links are good at a time only if two handlers sent them. `OnlyOwnersReset`: whoever moves where, a link never sets the password of an account that did not have its address. |
| `membership` | 833 300 (symmetric) | `EmptyOrgsAreExcused`, `PendingTwiceWasLate` (both: only by a handler that stopped or was overtaken), `AcceptedIsClosed`: an invitation that made an account is closed when its acceptance has ended, unless that handler stopped before the mark; who had read it before goes on. `SecondAccountMoved`: one invitation makes two accounts only if the first has moved to another address. |
| `access_control` | 332 800 | `LastAdminLeavesByOverrule`: the last admin goes only by a request of somebody who is no admin any more (a token from before, or two admins against each other). `DemotionTakesHold`: in the end no route that writes admits a demoted user, and `DeactivationTakesHold`: in the end no route at all serves a deactivated one, whatever tokens and logins were under way. |

And eleven where `FSD.md` says more than the code does. The passing runs say
what holds instead. Three are runs of the project, described under "findings"
in `PROJECT.json`:

| Run | FSD | The code |
|---|---|---|
| `deactivated_has_nothing` | line 112, "Deactivated users cannot log in" | the second step of a login does not read `is_active` |
| `disabled_has_no_codes` | line 583, "null out `mfa_secret` and `mfa_recovery_codes`" | `disableMfa` writes `undefined`, which leaves the column as it is, and `recoverMfa` accepts the codes |
| `deleted_is_not_running` | line 1507, delete "Only allowed when status is `draft` or `completed`" | `activate` writes by id what it checked two statements before |

For the other eight the module states the sentence of the FSD as a property,
and a `.cfg` of that name refutes it: `tlc -config RegisteredDoNotRing.cfg
MCCallPipeline`, say, prints the counterexample.

| Property | Module | FSD | The code |
|---|---|---|---|
| `InactiveIsRefused` | `AccessControl` | line 828 (AC-AUTH-11), "user's existing session ends" on deactivation; line 831 (AC-AUTH-14) says the same of a forced logout | no row is read for an access token (`jwt.strategy.ts:22`): it goes on for its 15 minutes |
| `LockRunsOut` | `LoginLockout` | line 330, "Account locked for 15 minutes." | a right password writes `locked_until: null` (`auth.service.ts:97`), also over a lock that was set since it was read |
| `TotalIsValidOrInvalid` | `MCCampaignService` | line 1543, 500 rows of which 487 valid and 13 invalid, and 5 duplicates | a duplicate is counted as neither valid nor invalid (`campaigns.service.ts:393`) |
| `RegisteredDoNotRing` | `MCCallPipeline` | line 1119 (AC-CMP-02), no call "to a number on the DNC registry" | the registry is looked at once, statements before the ring (`telephony.service.ts:172`) |
| `RingsWithinWindow` | `MCCallPipeline` | line 1120 (AC-CMP-03), no call "outside the configured calling window" | the window is checked against a `now` taken before all checks (`compliance.service.ts:242`) |
| `FailedAfterThreeRetries` | `WebhookDelivery` | line 1883 (AC-INT-03), "3 retries at 10s / 60s / 300s" | two retries; the third delay is never used (`webhooks.service.ts:184`) |
| `InactiveAreNotCalled` | `WebhookDelivery` | line 1885 (AC-INT-05), "Inactive endpoints receive no deliveries" | retries go on with what `dispatch` read |
| `OneDefaultPerJurisdiction` | `Disclosures` | line 956, "Default for this org + jurisdiction" | a default of each language of it (`compliance.service.ts:128`) |

### Bounds

* `AuthSessions`: one user, an admin who is not that user and one who is,
  three token rows, two sessions, two handlers. Two handlers are the least
  that race; three rows give a chain of two rotations, or one token replayed.
  Ids are used once, so a behaviour ends when they run out (Abandon and the
  admin endpoints go on, hence no deadlock).
* `LoginLockout`: the code's own limit, 5, and three logins: more logins than
  needed to lose an update and reset the counter in between.
* `SecondFactor`: two codes per setup instead of 8 (one used, one left), two
  setups, three codes by mail, two handlers.
* `CampaignService`: one campaign, two handlers, two uploads, files of at most
  three rows with a repeated number, an invalid row and a number in both.
* `CallPipeline`: two calls to one lead and one number. The clock goes through
  3:15, 4:15, 9:00 and 10:00 UTC, which is 8:45, 9:45, 14:30 and 15:30 in
  India, and the window is the hour from 9 to 10: India and a name that is no
  zone each see the time before the window, in it and after it, at different
  moments. A consent expires at 4:15 or never.
* `WebhookDelivery`: one endpoint, two secrets, two handlers, two dispatches
  with all their attempts: the first and two retries.
* `AccountLinks`: two accounts and a third address that either can move to,
  so that an address can be given up by one and taken by the other; two links,
  two handlers. A row is used once: with two links there are an older and a
  newer one to an address.
* `Membership`: two addresses, two invitations, two names, and three accounts,
  so that an invited account can move away and its invitation be accepted
  again; three handlers, as one can be overtaken by the second while the third
  fills an organisation.
* `AccessControl`: two users and two handlers, so that two admins can act
  against each other; the roles of the run are admin and agent, the two ends of
  every permission; the manager, who may do what an admin does on some routes,
  is only in the proofs (`RoleAssumption`). All routes of the five controllers
  are in.
* `Disclosures`: two rows, two jurisdictions with two languages each, two
  handlers: one default replaces the other, or is moved onto it.

The proofs below remove these bounds for every safety property.

### Fairness

* `LeadUpload`: weak fairness of each worker's own step. Node runs a promise
  whose awaited statement has come back; `Throw` and `Lose` are never required
  and never excluded.
* `CallPipeline`: weak fairness of each call's own step, which includes that
  an adapter answers or throws: the stubs throw at once. Ringing (`PutThrough`)
  is the provider's and has no fairness.
* `WebhookDelivery`: weak fairness of each delivery, its start included: the
  look-up comes back or fails, `fetch` has `AbortSignal.timeout(10_000)` and a
  timer fires.
* `AccessControl`: weak fairness of what a waiting handler does next, which may
  be to fail (the database and bcrypt come back), and of the end of each token
  and each pending login (time passes: 15 and 5 minutes). Nobody ever has to
  log in or call a route.
* `LoginLockout` has none: `WrongPasswordsLock` assumes what it is about, that
  wrong passwords keep being answered.
* The other modules have no fairness: their properties are safety properties.

`CHECK_DEADLOCK FALSE` is set where everything may be done: calls placed,
uploads finished, dispatches used up, the ids of accounts and invitations used
up (`membership`), or everybody deactivated and every token run out
(`access_control`).

## Proofs

`tlapm` checks every theorem for all values of the constants, from these
assumptions: `None` is no id, `Null` is no id and no Boolean, `Home` is none of the names that can be
registered, `LoginMaxAttempts` is a positive number,
`Clock` and `Expiry` are
quarters of an hour, a known zone has a whole offset at each of them and the
window two whole hours, `File` is a set of sequences of numbers and
invalid rows, `CodeCount` is a natural number. TLC evaluates all of them.

| Module | Argument |
|---|---|
| `AuthSessions_proofs` | `IInv` adds two parts. `FlightOK`: a handler past its check, and a pending JWT, belong to an account that exists and are marked *escaped* if it is inactive; without it `Mint` could turn anything into a row. A rotation that has read an active account is *fresh* again, so the mark does not outlive the handler that earned it. `RotationOK`: a token with a successor is dead, and a handler still to mint for a token has not minted for it; without it replays could not be counted. Theorems: `TypeCorrect`, `PurgeIsComplete`, `InactiveIsClosed`, `RotationBounded`, and `SessionsImplementGate`, the refinement, with one lemma for each kind of step: a start without a grant is a stutter (`StartStutters`), one with it is `Grant`, `Mint` is `IssueToken`, the purge is `Close`, whatever only ends or takes away is `Lapse`. `SerialRotationSpends`: with one handler at a time a token has one successor. |
| the same, on `LoginLockout` | `FullCounterIsLocked` is inductive with `LockoutTypeOK`, since every write of the counter decides the lock too (`LockoutTypeCorrect`, `CounterAndLockAgree`). `SerialLoginsCount`: with one login at a time the limit is exact, as line 820 of the FSD has it ("5 wrong passwords → 6th returns 429"; invariant `Counts`); logins that overlap count as one. |
| `SecondFactor_proofs` | `FlightOK` (what a waiting handler knows of the row: a copy that is not stale is what the row holds), `ConsumedOK` (the row of a used code is gone), `VoidOK` (a new setup hands out other codes). Theorems: `TypeCorrect`, `OtpsAreSingleUse`, `OtpsAreReplaced`, `RecoveryIsFinal`, `EnabledIsConfirmed`. `SerialFactorsHold`: with one handler at a time none of the exceptions occurs: no void code returns, what is enabled was confirmed, one mailed code is live. |
| `AccountLinks_proofs` | `FlightOK`: an account about to be marked as verified has a proof, or lost its address since; a handler about to send a link has none to that address in force; the link a reset has found was mailed to the address it was asked for, and that address is one the account has had. `HadOK` (an account has had its present address) makes the last part hold when the account is found, `SpentOK` (a spent row is gone) makes `SpentLinksAreDead` hold when a link is sent. Theorems: `TypeCorrect`, `VerificationIsProven`, `LinksStaySpent`, `LinksAreReplaced`, `ResetsAreOwn`, and `SerialLinksAreExact`: without overlap a verified address was proven and an address has one good link. |
| `Membership_proofs` | `FlightOK`: unless it is late, what a handler did not find is still not there, whatever comes between its two reads. `MadeOK`: an account that has not moved has the address of the invitation that made it; with the unique index two accounts from one invitation cannot both be unmoved, which is `SecondAccountMoved`. Theorems: `TypeCorrect`, `OrgsAreInhabited`, `InvitationsAreSingle`, `AcceptanceCloses`, `SecondAccountsMoved`, and `SerialInvitationsAreSingle`: without overlap an address has one pending invitation. |
| `CampaignService_proofs` | `LInv`: a handler about to resume or pause knows its campaign was activated, one about to activate knows there are leads; leads are only added, so this survives every upload. `UInv`: uploads that run at the same time are on record, an upload about to insert missed only leads of uploads it overlaps, and its counters are the rows behind it. Theorems: `TypeCorrect`, `RunningCampaignsHaveLeads`, `DuplicatesNeedOverlap`, `ReportsAreRight`. `SerialDeletionIsSafe`: `DeletedIsNotRunning`, which the run of that name refutes for two handlers, holds for one, whatever uploads run. |
| `CallPipeline_proofs` | `Trail`: what the audit trail holds at each statement. `Evident`: the evidence of a passed check cannot be lost, as consents and registry only grow and `now` is taken once. `Line`: who has rung. `HourOfQuarter` and `WindowIsLocal` say what the check of the window comes to: the local time of the zone, or UTC for an unknown one, lies in the window. Theorems: `TypeCorrect`, `RingsAreAllowed`, `QueuedCallsRing`, and `PipelineImplementsGate`, the refinement: initial states map to initial states and each action to a step of `CallGate` or a stutter. |
| the same, on `Disclosures` | `HandlerOK`: as long as a handler is not late, no row but its own is a default of the key it has cleared, and if the request gives a key it is that one. Then a second default can only come from a late handler or a move. Theorems: `DisclosureTypeCorrect`, `SecondDefaultIsLate`, and `SerialDefaultsMove`: without overlap only a move remains. |
| `AccessControl_proofs` | The type invariant says of a waiting handler that somebody runs it and that no admin acts on themselves; with it an admin who is left over was not the caller. Theorems: `TypeCorrect`, the action property `LastAdminOverruled`, and the safety halves of the two liveness properties: `DemotionStays` and `DeactivationStays` say that what an old role or an active account left behind (`Demoted`, `Closed`) does not come back once it has run out, whatever else is done. The first rests on `AgentsWriteNothing`, over the permissions of all routes: no handler that writes admits an agent. |
| `WebhookDelivery_proofs` | `SecretsOK`: no row has a retired secret, and no two rows share one; then a dispatch can only start with a secret in force. `SleepOK`: a delivery sleeps only if it may try again. Theorems: `TypeCorrect`, `RotationHolds`. |

The theorems named `Serial…` say what the code would keep if handlers of one
kind ran one after the other. They show that the exceptions in the invariants
(a row that is *late*, *escaped*, *crossed*, a *race*) stand for overlapping
requests and for nothing else. `DeactivatedHasNothing` has no such theorem: a
login that waits for its second factor survives the deactivation although no
two handlers overlap.

Only model-checked: the liveness properties `WrongPasswordsLock`,
`UploadSettles`, `CallIsRecorded`, `DeliveriesSettle`, `DemotionTakesHold` and
`DeactivationTakesHold` (the prover has no rules for fairness that reach them;
of the last two it has the part that needs none).
The type invariants of `LoginLockout` and `Disclosures` are only proved.

## Not modelled

* `updateLead`: it writes columns that no other code reads to decide anything,
  behind a guard on the status `dnc` that no code ever sets
  (`WRITABLE_STATUSES` leaves it out), so that no state of the program passes
  or fails it by a race. If something comes to set `dnc`, the read before the
  write (`leads.service.ts:108`) needs a model.
* Lists, pages, CSV exports and `getInvitation` are reads: a page and its total
  are two queries and can disagree, but nothing decides on them.
* The password and the name in `updateMe`, `resendVerification` (the same link
  again), analytics, script validation (a function on strings), demo requests,
  mail and audit log: they keep no state that a later step decides on. A
  failing audit insert is the `Abandon` of a handler.
* The routes of `auth.controller.ts` ask for no role; each calls one handler
  that is modelled where it changes state. Of the other controllers,
  `POST /organizations` writes (`CreateOrganization` of `Membership`), a public
  demo request inserts a row nobody reads, and the rest only read.
* The provider adapters are stubs; HMACs and bodies of webhooks are left out.
* Throttler and exception filter: counters of one process and formatting. The
  models let every handler run at any time, which allows more than they do.

* Two things the models allow and no document promises away: two resets that
  have found one link before either spent it both set a password
  (`SpentLinksAreDead` speaks of links spent before the read), and an
  organisation can lose its last admin (`LastAdminLeavesByOverrule` says how).

## Plan

1. An abstract specification of a code that is good once, implemented by the
   mailed codes of `SecondFactor` and by the reset links of `AccountLinks`.
2. `updateLead` with the registry and the uploads, when `dnc` is reachable.
