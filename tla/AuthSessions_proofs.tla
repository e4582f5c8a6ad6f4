------------------------ MODULE AuthSessions_proofs ------------------------
(* Proofs about auth.service.ts: for all sets of users, tokens, sessions   *)
(* and handlers the invariants of AuthSessions and that it implements      *)
(* SessionGate, and for any limit and any number of logins the invariants  *)
(* of LoginLockout.  AuthSessions and LoginLockout share no variable.      *)
EXTENDS AuthSessions, LoginLockout, TLAPS

USE DEF Rows

\* The initial state has no rows and no handlers.
LEMMA InitIInv == Init => IInv
  BY NoneAssumption
     DEF Init, IInv, TypeOK, OwnersExist, FlightOK, PurgeReachesDescendants,
         InactiveOnlyEscaped, RotationOK, OneSuccessorPerHandler, Live, NoRow, NoSession, Idle,
         TokenRow, SessionRow, PendingJwt, Handler, Lineage, Pc, Admitted, Account

\* What the type of the two tables says, field by field.
LEMMA RowFields ==
  ASSUME TypeOK
  PROVE  /\ \A t \in Token :
              /\ refreshToken[t].status \in {"absent", "live", "dead"}
              /\ refreshToken[t].user \in User \cup {None}
              /\ refreshToken[t].parent \in Token \cup {None}
              /\ refreshToken[t].lineage \in Lineage
              /\ refreshToken[t] = NoRow <=> refreshToken[t].status = "absent"
              /\ refreshToken[t] = NoRow <=> refreshToken[t].user = None
              /\ refreshToken[t] = NoRow => refreshToken[t].parent = None
              /\ refreshToken[t] # NoRow => refreshToken[t].by \in Request
         /\ \A s \in Session :
              /\ userSession[s].user \in User \cup {None}
              /\ userSession[s] = NoSession <=> userSession[s].user = None
  BY NoneAssumption DEF TypeOK, TokenRow, SessionRow, NoRow, NoSession, Lineage

\* A handler that starts writes no row; what it takes along must be what
\* FlightOK and RotationOK ask of it.
LEMMA StartKeeps ==
  ASSUME IInv, NEW r \in Request, NEW pc \in Pc, NEW u \in User, NEW t \in Token \cup {None},
         NEW lineage \in Lineage,
         Start(r, pc, u, t, lineage), UNCHANGED Rows,
         pc \in Admitted => /\ account[u] # "absent"
                            /\ lineage # "purged"
                            /\ account[u] = "inactive" => lineage = "escaped",
         pc \in {"login", "mfa"} => t = None,
         pc \in {"rotate", "logout"} => t \in Token /\ Live(t),
         pc # "remint"
  PROVE  IInv'
  <1>1. TypeOK'
    BY DEF IInv, TypeOK, OwnersExist, Start, Handler
  <1>2. FlightOK' /\ PurgeReachesDescendants' /\ InactiveOnlyEscaped' /\ OneSuccessorPerHandler'
    BY DEF IInv, TypeOK, FlightOK, PurgeReachesDescendants, InactiveOnlyEscaped, Live, Start,
           Handler, OneSuccessorPerHandler
  <1>3. RotationOK'
    BY NoneAssumption, RowFields DEF IInv, TypeOK, RotationOK, Live, Start, Handler, NoRow
  <1>. QED  BY <1>1, <1>2, <1>3 DEF IInv

\* A handler of the session list is admitted to nothing.
LEMMA StartOnSessionKeeps ==
  ASSUME IInv, NEW r \in Request, NEW pc \in {"revokeSession", "revokeAll"}, NEW u \in User,
         NEW s \in Session \cup {None}, StartOnSession(r, pc, u, s), UNCHANGED Rows
  PROVE  IInv'
  <1>1. TypeOK'
    BY DEF IInv, TypeOK, OwnersExist, StartOnSession, Handler, Pc, Lineage
  <1>2. FlightOK' /\ PurgeReachesDescendants' /\ InactiveOnlyEscaped' /\ OneSuccessorPerHandler'
    BY DEF IInv, TypeOK, FlightOK, PurgeReachesDescendants, InactiveOnlyEscaped, Live,
           StartOnSession, Handler, Admitted, OneSuccessorPerHandler
  <1>3. RotationOK'
    BY DEF IInv, TypeOK, RotationOK, StartOnSession, Handler
  <1>. QED  BY <1>1, <1>2, <1>3 DEF IInv

\* A handler that ends and rows that go away owe nothing; the one row that
\* may appear is the JWT of an admitted handler, as good as the handler.
LEMMA FinishKeeps ==
  ASSUME IInv, UNCHANGED <<account, refreshToken>>,
         userSession' \in [Session -> SessionRow],
         \A s \in Session : userSession'[s] = userSession[s] \/ userSession'[s] = NoSession,
         \/ UNCHANGED req /\ mfaPending' \subseteq mfaPending
         \/ \E r \in Request :
              /\ Finish(r)
              /\ \/ mfaPending' \subseteq mfaPending
                 \/ /\ req[r].pc \in Admitted
                    /\ mfaPending' = mfaPending \cup
                                       {[user |-> req[r].user, lineage |-> req[r].lineage]}
  PROVE  IInv'
  <1>1. /\ req' \in [Request -> Handler]
        /\ \A q \in Request : req'[q] = req[q] \/ req'[q] = Idle
    BY DEF IInv, TypeOK, Finish, Handler, Idle, Lineage, Pc
  <1>2. /\ mfaPending' \subseteq PendingJwt
        /\ \A jwt \in mfaPending' :
             /\ account[jwt.user] # "absent"
             /\ account[jwt.user] = "inactive" => jwt.lineage = "escaped"
    BY DEF IInv, TypeOK, FlightOK, Handler, PendingJwt, Lineage, Admitted
  <1>3. TypeOK'
    BY <1>1, <1>2 DEF IInv, TypeOK, OwnersExist, NoSession
  <1>4. FlightOK'
    BY <1>1, <1>2 DEF IInv, FlightOK, Idle, Admitted
  <1>5. PurgeReachesDescendants' /\ InactiveOnlyEscaped' /\ OneSuccessorPerHandler'
    BY NoneAssumption DEF IInv, TypeOK, PurgeReachesDescendants, InactiveOnlyEscaped, Live,
        NoSession, OneSuccessorPerHandler
  <1>6. RotationOK'
    BY <1>1 DEF IInv, RotationOK, Idle
  <1>. QED  BY <1>3, <1>4, <1>5, <1>6 DEF IInv

\* Revoking one token by its id, as rotation, logout and expiry do.
LEMMA RevokeKeeps ==
  ASSUME IInv, NEW t \in Token, refreshToken[t] # NoRow,
         refreshToken' = [refreshToken EXCEPT ![t].status = "dead"],
         UNCHANGED <<account, userSession, mfaPending>>,
         \/ UNCHANGED req
         \/ \E r \in Request :
              \/ /\ req[r].pc = "rotate" /\ req[r].tok = t
                 /\ Continue(r, "remint")
              \/ /\ req[r].pc = "logout"
                 /\ Continue(r, "logoutSession")
  PROVE  IInv'
  <1>1. /\ refreshToken' \in [Token -> TokenRow]
        /\ \A c \in Token :
             /\ refreshToken'[c].user = refreshToken[c].user
             /\ refreshToken'[c].parent = refreshToken[c].parent
             /\ refreshToken'[c].by = refreshToken[c].by
             /\ refreshToken'[c].lineage = refreshToken[c].lineage
             /\ refreshToken'[c].status = IF c = t THEN "dead" ELSE refreshToken[c].status
    BY RowFields DEF IInv, TypeOK, TokenRow, NoRow
  <1>2. /\ req' \in [Request -> Handler]
        /\ \A q \in Request :
             /\ req'[q].user = req[q].user
             /\ req'[q].tok = req[q].tok
             /\ req'[q].lineage = req[q].lineage
             /\ \/ req'[q].pc = req[q].pc
                \/ req[q].pc = "rotate" /\ req[q].tok = t /\ req'[q].pc = "remint"
                \/ req[q].pc = "logout" /\ req'[q].pc = "logoutSession"
    <2>1. CASE UNCHANGED req
      BY <2>1 DEF IInv, TypeOK
    <2>2. ASSUME NEW r \in Request, NEW pc \in Pc, Continue(r, pc),
                 \/ req[r].pc = "rotate" /\ req[r].tok = t /\ pc = "remint"
                 \/ req[r].pc = "logout" /\ pc = "logoutSession"
          PROVE  /\ req' \in [Request -> Handler]
                 /\ req'[r].user = req[r].user
                 /\ req'[r].tok = req[r].tok
                 /\ req'[r].lineage = req[r].lineage
                 /\ req'[r].pc = pc
                 /\ \A q \in Request : q # r => req'[q] = req[q]
      BY <2>2 DEF IInv, TypeOK, Handler, Continue
    <2>3. {"remint", "logoutSession"} \subseteq Pc
      BY DEF Pc, Admitted
    <2>. QED  BY <2>1, <2>2, <2>3
  <1>3. TypeOK'
    BY <1>1, <1>2 DEF IInv, TypeOK, OwnersExist, NoRow
  <1>4. FlightOK'
    BY <1>2 DEF IInv, FlightOK, Admitted
  <1>5. PurgeReachesDescendants' /\ InactiveOnlyEscaped' /\ OneSuccessorPerHandler'
    BY <1>1 DEF IInv, PurgeReachesDescendants, InactiveOnlyEscaped, Live, OneSuccessorPerHandler
  <1>6. RotationOK'
    BY <1>1, <1>2, NoneAssumption, RowFields DEF IInv, TypeOK, RotationOK, NoRow
  <1>. QED  BY <1>3, <1>4, <1>5, <1>6 DEF IInv

\* generateTokens() writes a row that no handler holds and no row names.
LEMMA MintKeeps ==
  ASSUME IInv, NEW r \in Request, NEW t \in Token, Mint(r, t)
  PROVE  IInv'
  <1>. DEFINE minted == [status |-> "live", user |-> req[r].user, parent |-> req[r].tok,
                         by |-> r, lineage |-> req[r].lineage]
  <1>1. /\ req[r].pc \in Admitted
        /\ req[r].pc # "remint" => req[r].tok = None
        /\ refreshToken[t] = NoRow
    BY DEF Mint, Admitted, IInv, RotationOK
  <1>2. /\ refreshToken' \in [Token -> TokenRow]
        /\ refreshToken'[t] = minted
        /\ \A c \in Token : c # t => refreshToken'[c] = refreshToken[c]
    BY <1>1 DEF IInv, TypeOK, FlightOK, Mint, TokenRow, Handler
  <1>3. /\ req' \in [Request -> Handler]
        /\ \A q \in Request : q # r => req'[q] = req[q]
        /\ req[r].pc = "remint" => req'[r] = Idle
        /\ req[r].pc # "remint" => req'[r] = [req[r] EXCEPT !.pc = "session"]
    BY DEF IInv, TypeOK, Mint, Finish, Continue, Handler, Idle, Lineage, Pc, Admitted
  <1>4. UNCHANGED <<account, userSession, mfaPending>>
    BY DEF Mint
  <1>5. TypeOK'
    BY <1>1, <1>2, <1>3, <1>4 DEF IInv, TypeOK, OwnersExist, FlightOK
  <1>6. FlightOK'
    BY <1>1, <1>3, <1>4 DEF IInv, TypeOK, Handler, FlightOK, Idle, Admitted
  <1>7. PurgeReachesDescendants' /\ InactiveOnlyEscaped'
    BY <1>1, <1>2, <1>4 DEF IInv, FlightOK, PurgeReachesDescendants, InactiveOnlyEscaped, Live
  <1>8. RotationOK'
    <2>1. \A c \in Token : refreshToken'[c].parent # None
                             => refreshToken'[refreshToken'[c].parent].status = "dead"
      BY <1>1, <1>2, RowFields DEF IInv, TypeOK, NoRow, RotationOK
    <2>2. ASSUME NEW q \in Request, q # r
          PROVE  /\ req'[q].pc \in {"login", "mfa"} => req'[q].tok = None
                 /\ req'[q].pc \in {"rotate", "remint", "logout"} =>
                      /\ req'[q].tok \in Token
                      /\ refreshToken'[req'[q].tok] # NoRow
                 /\ req'[q].pc \in {"rotate", "remint"} =>
                      \A c \in Token : refreshToken'[c].parent = req'[q].tok
                                            => refreshToken'[c].by # q
                 /\ req'[q].pc = "remint" => refreshToken'[req'[q].tok].status = "dead"
      BY <1>1, <1>2, <1>3, <2>2 DEF IInv, RotationOK
    <2>3. req'[r].pc \in {"idle", "session"}
      BY <1>3 DEF Idle, IInv, TypeOK, Handler
    <2>. QED  BY <2>1, <2>2, <2>3 DEF RotationOK
  <1>9. OneSuccessorPerHandler'
    <2>1. ASSUME NEW c \in Token, c # t
          PROVE  ~ /\ refreshToken'[t].parent # None
                   /\ refreshToken'[c].parent = refreshToken'[t].parent
                   /\ refreshToken'[c].by = refreshToken'[t].by
      <3>1. refreshToken'[t].parent = req[r].tok /\ refreshToken'[t].by = r
        BY <1>2
      <3>2. refreshToken'[c] = refreshToken[c]
        BY <1>2, <2>1
      <3>. QED  BY <1>1, <3>1, <3>2 DEF IInv, RotationOK, Mint
    <2>2. ASSUME NEW c \in Token, NEW d \in Token, c # t, d # t,
                 refreshToken'[c].parent # None,
                 refreshToken'[c].parent = refreshToken'[d].parent,
                 refreshToken'[c].by = refreshToken'[d].by
          PROVE  c = d
      BY <1>2, <2>2 DEF IInv, OneSuccessorPerHandler
    <2>. QED  BY <2>1, <2>2 DEF OneSuccessorPerHandler
  <1>. QED  BY <1>5, <1>6, <1>7, <1>8, <1>9 DEF IInv

\* createSession() writes a session as good as the handler that writes it.
LEMMA CreateSessionKeeps ==
  ASSUME IInv, NEW r \in Request, NEW s \in Session, CreateSession(r, s)
  PROVE  IInv'
  <1>1. req[r].pc \in Admitted /\ req[r].user \in User
    BY DEF CreateSession, Admitted, IInv, FlightOK
  <1>2. /\ userSession' \in [Session -> SessionRow]
        /\ userSession'[s] = [user |-> req[r].user, lineage |-> req[r].lineage]
        /\ \A x \in Session : x # s => userSession'[x] = userSession[x]
    BY <1>1 DEF IInv, TypeOK, CreateSession, SessionRow, Handler
  <1>3. /\ req' \in [Request -> Handler]
        /\ req'[r] = Idle
        /\ \A q \in Request : q # r => req'[q] = req[q]
    BY DEF IInv, TypeOK, CreateSession, Finish, Handler, Idle, Lineage, Pc
  <1>4. UNCHANGED <<account, refreshToken, mfaPending>>
    BY DEF CreateSession
  <1>5. TypeOK'
    BY <1>1, <1>2, <1>3, <1>4 DEF IInv, TypeOK, OwnersExist, FlightOK
  <1>6. FlightOK'
    BY <1>3, <1>4 DEF IInv, FlightOK, Idle, Admitted
  <1>7. PurgeReachesDescendants' /\ InactiveOnlyEscaped'
    BY <1>1, <1>2, <1>4 DEF IInv, FlightOK, PurgeReachesDescendants, InactiveOnlyEscaped, Live
  <1>8. RotationOK' /\ OneSuccessorPerHandler'
    BY <1>3, <1>4 DEF IInv, RotationOK, OneSuccessorPerHandler, Idle
  <1>. QED  BY <1>5, <1>6, <1>7, <1>8 DEF IInv

\* After a purge of u, u has no live token and no session, what was in
\* flight has escaped, and nobody else's rows have changed; so it does not
\* matter whether the same transaction makes u inactive.
LEMMA PurgeKeeps ==
  ASSUME IInv, NEW r \in Request, NEW u \in User, Purge(r, u), req[r].pc \notin Admitted,
         \/ UNCHANGED account
         \/ account' = [account EXCEPT ![u] = "inactive"]
  PROVE  IInv'
  <1>1. /\ refreshToken' \in [Token -> TokenRow]
        /\ \A c \in Token :
             /\ refreshToken'[c].user = refreshToken[c].user
             /\ refreshToken'[c].parent = refreshToken[c].parent
             /\ refreshToken'[c].by = refreshToken[c].by
             /\ refreshToken[c].user # u => refreshToken'[c] = refreshToken[c]
             /\ refreshToken[c].user = u => refreshToken'[c].status = "dead"
    <2>1. ASSUME NEW c \in Token, refreshToken[c].user = u
          PROVE  /\ refreshToken'[c] \in TokenRow
                 /\ refreshToken'[c].user = u
                 /\ refreshToken'[c].parent = refreshToken[c].parent
                 /\ refreshToken'[c].by = refreshToken[c].by
                 /\ refreshToken'[c].status = "dead"
      BY <2>1, NoneAssumption
         DEF IInv, TypeOK, Purge, RevokeTokensOf, PurgedRow, TokenRow, NoRow, Lineage
    <2>2. ASSUME NEW c \in Token, refreshToken[c].user # u
          PROVE  refreshToken'[c] = refreshToken[c]
      BY <2>2 DEF Purge, RevokeTokensOf
    <2>3. refreshToken' \in [Token -> TokenRow]
      BY <2>1, <2>2 DEF IInv, TypeOK, Purge, RevokeTokensOf
    <2>. QED  BY <2>1, <2>2, <2>3
  <1>2. /\ userSession' \in [Session -> SessionRow]
        /\ \A s \in Session :
             \/ userSession'[s] = NoSession
             \/ userSession[s].user # u /\ userSession'[s] = userSession[s]
    BY DEF IInv, TypeOK, Purge, SessionRow, NoSession, Lineage
  <1>3. /\ mfaPending' \subseteq PendingJwt
        /\ \A jwt \in mfaPending' :
             \/ jwt.user # u /\ jwt \in mfaPending
             \/ /\ jwt.user = u /\ jwt.lineage = "escaped"
                /\ \E old \in mfaPending : old.user = u
    BY DEF IInv, TypeOK, Purge, OvertakenJwts, PendingJwt
  <1>4. /\ req' \in [Request -> Handler]
        /\ req'[r] = Idle
        /\ \A q \in Request : q # r =>
             /\ req'[q].pc = req[q].pc
             /\ req'[q].user = req[q].user
             /\ req'[q].tok = req[q].tok
             /\ req[q].user = u /\ req[q].pc \in Admitted => req'[q].lineage = "escaped"
             /\ req[q].user # u => req'[q].lineage = req[q].lineage
    <2>1. /\ req \in [Request -> Handler] /\ Idle \in Handler
          /\ req' = [Overtaken(u) EXCEPT ![r] = Idle]
      BY DEF IInv, TypeOK, Purge, Handler, Idle, Lineage, Pc
    <2>2. ASSUME NEW q \in Request
          PROVE  /\ Overtaken(u)[q] \in Handler
                 /\ Overtaken(u)[q].pc = req[q].pc
                 /\ Overtaken(u)[q].user = req[q].user
                 /\ Overtaken(u)[q].tok = req[q].tok
                 /\ Overtaken(u)[q].lineage =
                       IF req[q].user = u /\ req[q].pc \in Admitted THEN "escaped" ELSE req[q].lineage
      BY <2>1 DEF Overtaken, Handler, Lineage
    <2>3. /\ req'[r] = Idle
          /\ \A q \in Request : q # r => req'[q] = Overtaken(u)[q]
      BY <2>1 DEF Overtaken
    <2>4. req' \in [Request -> Handler]
      BY <2>1, <2>2 DEF Overtaken
    <2>. QED  BY <2>2, <2>3, <2>4
  <1>5. /\ account' \in [User -> Account]
        /\ \A v \in User : v # u => account'[v] = account[v]
        /\ account[u] # "absent" => account'[u] # "absent"
    BY DEF IInv, TypeOK, Account
  <1>6. TypeOK'
    <2>1. ASSUME NEW c \in Token, refreshToken'[c] # NoRow
          PROVE  account'[refreshToken'[c].user] # "absent"
      BY <1>1, <1>5, <2>1, RowFields, NoneAssumption DEF IInv, TypeOK, OwnersExist, NoRow
    <2>2. ASSUME NEW s \in Session, userSession'[s] # NoSession
          PROVE  account'[userSession'[s].user] # "absent"
      BY <1>2, <1>5, <2>2, RowFields DEF IInv, TypeOK, OwnersExist
    <2>. QED  BY <1>1, <1>2, <1>3, <1>4, <1>5, <2>1, <2>2 DEF TypeOK, OwnersExist
  <1>7. FlightOK'
    BY <1>3, <1>4, <1>5 DEF IInv, TypeOK, PendingJwt, FlightOK, Idle, Admitted
  <1>8. PurgeReachesDescendants' /\ InactiveOnlyEscaped'
    BY <1>1, <1>2, <1>5, NoneAssumption
       DEF IInv, PurgeReachesDescendants, InactiveOnlyEscaped, Live, NoSession
  <1>9. RotationOK'
    <2>1. \A c \in Token : refreshToken[c].status = "dead" => refreshToken'[c].status = "dead"
      BY <1>1, RowFields DEF IInv
    <2>2. \A c \in Token : refreshToken[c] # NoRow => refreshToken'[c] # NoRow
      BY <1>1, RowFields DEF IInv, NoRow
    <2>. QED  BY <1>1, <1>4, <2>1, <2>2, RowFields DEF IInv, RotationOK, Idle
  <1>10. OneSuccessorPerHandler'
    BY <1>1 DEF IInv, OneSuccessorPerHandler
  <1>. QED  BY <1>6, <1>7, <1>8, <1>9, <1>10 DEF IInv

\* Creating or reactivating an account takes no row and no handler with it.
LEMMA AccountKeeps ==
  ASSUME IInv, NEW u \in User, account' = [account EXCEPT ![u] = "active"],
         UNCHANGED <<refreshToken, userSession, mfaPending>>,
         \/ UNCHANGED req
         \/ \E r \in Request : Finish(r)
         \/ \E r \in Request : Start(r, "mfa", u, None, "fresh")
  PROVE  IInv'
  <1>1. /\ account' \in [User -> Account]
        /\ account'[u] = "active"
        /\ \A v \in User : v # u => account'[v] = account[v]
    BY DEF IInv, TypeOK, Account
  <1>2. /\ req' \in [Request -> Handler]
        /\ \A q \in Request :
             \/ req'[q] = req[q]
             \/ req'[q] = Idle
             \/ req'[q] = [pc |-> "mfa", user |-> u, tok |-> None, ses |-> None,
                            lineage |-> "fresh"]
    BY DEF IInv, TypeOK, Finish, Start, Handler, Idle, Lineage, Pc, Admitted
  <1>3. TypeOK'
    BY <1>1, <1>2, RowFields DEF IInv, TypeOK, OwnersExist
  <1>4. FlightOK'
    BY <1>1, <1>2 DEF IInv, TypeOK, PendingJwt, FlightOK, Idle, Admitted
  <1>5. PurgeReachesDescendants' /\ InactiveOnlyEscaped'
    BY <1>1, RowFields DEF IInv, PurgeReachesDescendants, InactiveOnlyEscaped, Live
  <1>6. RotationOK' /\ OneSuccessorPerHandler'
    BY <1>2 DEF IInv, RotationOK, OneSuccessorPerHandler, Idle
  <1>. QED  BY <1>3, <1>4, <1>5, <1>6 DEF IInv

\* Every step of every handler preserves the inductive invariant.
THEOREM NextIInv == IInv /\ [Next]_vars => IInv'
  <1>. SUFFICES ASSUME IInv, [Next]_vars PROVE IInv'
    OBVIOUS
  <1>. USE DEF Pc, Admitted, Lineage
  <1>1. ASSUME NEW u \in User, Register(u) PROVE IInv'
    BY <1>1, AccountKeeps DEF Register
  <1>2. ASSUME NEW r \in Request, NEW u \in User, AcceptInvite(r, u) PROVE IInv'
    BY <1>2, AccountKeeps DEF AcceptInvite
  <1>3. ASSUME NEW r \in Request, NEW u \in User, LoginFind(r, u) PROVE IInv'
    BY <1>3, StartKeeps DEF LoginFind, MayLogIn
  <1>4. ASSUME NEW r \in Request, LoginMfaRequired(r) PROVE IInv'
    <2>1. /\ Finish(r) /\ UNCHANGED <<account, refreshToken, userSession>>
          /\ mfaPending' = mfaPending \cup {[user |-> req[r].user, lineage |-> req[r].lineage]}
          /\ req[r].pc \in Admitted
      BY <1>4 DEF LoginMfaRequired
    <2>2. userSession' \in [Session -> SessionRow]
      BY <2>1 DEF IInv, TypeOK
    <2>. QED  BY <2>1, <2>2, FinishKeeps
  <1>5. ASSUME NEW r \in Request, NEW jwt \in mfaPending, MfaFind(r, jwt) PROVE IInv'
    <2>1. /\ jwt.user \in User
          /\ jwt.lineage \in Lineage \ {"purged"}
          /\ account[jwt.user] # "absent"
          /\ account[jwt.user] = "inactive" => jwt.lineage = "escaped"
      BY DEF IInv, TypeOK, PendingJwt, FlightOK
    <2>. QED  BY <1>5, <2>1, StartKeeps DEF MfaFind
  <1>6. ASSUME NEW r \in Request, NEW t \in Token, RefreshFind(r, t) PROVE IInv'
    <2>1. /\ Live(t)
          /\ account[refreshToken[t].user] = "active"
          /\ Start(r, "rotate", refreshToken[t].user, t, HandedOn(refreshToken[t].lineage))
          /\ UNCHANGED Rows
      BY <1>6 DEF RefreshFind, Refreshable
    <2>2. /\ refreshToken[t].user \in User
          /\ HandedOn(refreshToken[t].lineage) = "fresh"
      BY <2>1, RowFields DEF IInv, Live, NoRow, PurgeReachesDescendants, HandedOn
    <2>. QED  BY <2>1, <2>2, StartKeeps
  <1>7. ASSUME NEW r \in Request, NEW u \in User, NEW t \in Token, LogoutFind(r, u, t) PROVE IInv'
    BY <1>7, StartKeeps DEF LogoutFind
  <1>8. ASSUME NEW r \in Request, NEW u \in User,
               ResetFind(r, u) \/ ActivateFind(r, u) \/ ForceLogoutFind(r, u)
        PROVE  IInv'
    BY <1>8, StartKeeps DEF ResetFind, ActivateFind, ForceLogoutFind
  <1>9. ASSUME NEW r \in Request, NEW u \in User, NEW admin \in Admin, DeactivateFind(r, admin, u)
        PROVE  IInv'
    BY <1>9, StartKeeps DEF DeactivateFind
  <1>10. ASSUME NEW r \in Request, NEW t \in Token, Mint(r, t) PROVE IInv'
    BY <1>10, MintKeeps
  <1>11. ASSUME NEW r \in Request, NEW s \in Session, CreateSession(r, s) PROVE IInv'
    BY <1>11, CreateSessionKeeps
  <1>12. ASSUME NEW r \in Request, RefreshRevoke(r) \/ LogoutRevoke(r) PROVE IInv'
    <2>1. req[r].tok \in Token /\ refreshToken[req[r].tok] # NoRow
      BY <1>12 DEF RefreshRevoke, LogoutRevoke, IInv, RotationOK
    <2>. QED  BY <1>12, <2>1, RevokeKeeps DEF RefreshRevoke, LogoutRevoke
  <1>13. ASSUME NEW t \in Token, TokenExpires(t) PROVE IInv'
    BY <1>13, RowFields, RevokeKeeps DEF TokenExpires, Live, IInv, NoRow
  <1>14. ASSUME NEW r \in Request, ResetCommit(r) \/ ForceLogoutCommit(r) \/ DeactivateCommit(r)
         PROVE  IInv'
    <2>1. req[r].user \in User
      BY <1>14 DEF ResetCommit, ForceLogoutCommit, DeactivateCommit, IInv, FlightOK
    <2>. QED  BY <1>14, <2>1, PurgeKeeps DEF ResetCommit, ForceLogoutCommit, DeactivateCommit
  <1>15. ASSUME NEW r \in Request, ActivateCommit(r) PROVE IInv'
    <2>1. req[r].user \in User
      BY <1>15 DEF ActivateCommit, IInv, FlightOK
    <2>. QED  BY <1>15, <2>1, AccountKeeps DEF ActivateCommit
  <1>16. ASSUME NEW r \in Request, NEW s \in Session \cup {None}, LogoutSession(r, s) PROVE IInv'
    BY <1>16, FinishKeeps DEF LogoutSession, DeleteSessions, IInv, TypeOK, SessionRow
  <1>17. ASSUME NEW r \in Request, RevokeSessionDelete(r) \/ RevokeAllDelete(r) PROVE IInv'
    BY <1>17, FinishKeeps
       DEF RevokeSessionDelete, RevokeAllDelete, DeleteSessions, IInv, TypeOK, SessionRow
  <1>18. ASSUME NEW r \in Request, Abandon(r) PROVE IInv'
    BY <1>18, FinishKeeps DEF Abandon, IInv, TypeOK
  <1>19. ASSUME NEW jwt \in mfaPending, JwtExpires(jwt) PROVE IInv'
    BY <1>19, FinishKeeps DEF JwtExpires, IInv, TypeOK
  <1>20. CASE UNCHANGED vars
    BY <1>20, FinishKeeps DEF vars, IInv, TypeOK
  <1>21. ASSUME NEW r \in Request, NEW u \in User, NEW s \in Session \cup {None},
                (s \in Session /\ RevokeSessionFind(r, u, s)) \/ RevokeAllFind(r, u, s)
         PROVE  IInv'
    BY <1>21, StartOnSessionKeeps DEF RevokeSessionFind, RevokeAllFind
  <1>. QED
    BY <1>1, <1>2, <1>3, <1>4, <1>5, <1>6, <1>7, <1>8, <1>9, <1>10, <1>11, <1>12, <1>13, <1>14,
       <1>15, <1>16, <1>17, <1>18, <1>19, <1>20, <1>21
       DEF Next

\* The invariants of AuthSessions hold in every reachable state, for any
\* number of users, tokens, sessions and concurrent handlers.
THEOREM SpecIInv == Spec => []IInv
  BY InitIInv, NextIInv, PTL DEF Spec

\* The types, and that no row is ever minted for an account that does not
\* exist yet.
THEOREM TypeCorrect == Spec => []TypeOK
  BY SpecIInv, PTL DEF IInv

\* deactivateUser(), forceLogout() and resetPassword() reach every
\* descendant of the rows they found.
THEOREM PurgeIsComplete == Spec => []PurgeReachesDescendants
  BY SpecIInv, PTL DEF IInv

\* An inactive account has no credential but what was already past its
\* is_active check when the deactivation committed.
THEOREM InactiveIsClosed == Spec => []InactiveOnlyEscaped
  BY SpecIInv, PTL DEF IInv

\* Replaying a refresh token never yields two tokens from one handler.
THEOREM RotationBounded == Spec => []OneSuccessorPerHandler
  BY SpecIInv, PTL DEF IInv

-----------------------------------------------------------------------------
(* The handlers implement SessionGate.                                     *)

\* Nothing is there before the first step, and no handler holds a grant.
LEMMA GateInit == Init => Gate!Init
  BY DEF Init, Gate!Init, NoRow, NoSession, Idle, Live, Admitted

\* A handler that starts without a grant is not seen by the gate.
LEMMA StartStutters ==
  ASSUME IInv, NEW r \in Request, NEW pc \in Pc \ Admitted, NEW u \in User,
         NEW t \in Token \cup {None}, NEW lineage \in Lineage,
         Start(r, pc, u, t, lineage), UNCHANGED Rows
  PROVE  UNCHANGED Gate!vars
  <1>1. \A q \in Request : (req'[q].pc \in Admitted <=> req[q].pc \in Admitted)
                           /\ (req[q].pc \in Admitted => req'[q] = req[q])
    BY DEF IInv, TypeOK, Start, Idle, Admitted
  <1>. QED  BY <1>1 DEF Gate!vars, Live

\* A handler that is admitted takes a grant.
LEMMA StartGrants ==
  ASSUME IInv, NEW r \in Request, NEW pc \in Admitted, NEW u \in User,
         NEW t \in Token \cup {None}, NEW lineage \in Lineage,
         Start(r, pc, u, t, lineage), UNCHANGED Rows,
         account[u] = "active" \/ u \in {jwt.user : jwt \in mfaPending}
  PROVE  Gate!Grant(r, u)
  <1>1. /\ req[r].pc \notin Admitted
        /\ req'[r].pc \in Admitted /\ req'[r].user = u
        /\ \A q \in Request : q # r => req'[q] = req[q]
    BY DEF IInv, TypeOK, Start, Idle, Admitted, Handler
  <1>. QED  BY <1>1 DEF Gate!Grant, Live

\* What ends, and what goes away, is a lapse; so is the end of a handler
\* that held no grant.
LEMMA GateLapses ==
  ASSUME IInv, IInv', UNCHANGED account,
         \A t \in Token : /\ refreshToken'[t].user = refreshToken[t].user
                          /\ Live(t)' => Live(t),
         \A s \in Session : userSession'[s].user \in {userSession[s].user, None},
         mfaPending' \subseteq mfaPending,
         \A r \in Request : req'[r].pc \in Admitted =>
             req[r].pc \in Admitted /\ req'[r].user = req[r].user
  PROVE  Gate!Lapse
  <1>1. \A s \in Session : userSession'[s].user \in User \cup {None}
    BY RowFields DEF IInv, TypeOK, SessionRow, NoSession
  <1>2. \A r \in Request : req'[r].pc \in Admitted => req'[r].user \in User
    BY DEF IInv, FlightOK, Admitted
  <1>. QED  BY <1>1, <1>2 DEF Gate!Lapse

\* generateTokens() issues to whom the handler was admitted for, once.
LEMMA GateMints ==
  ASSUME IInv, NEW r \in Request, NEW t \in Token, Mint(r, t)
  PROVE  Gate!IssueToken(r, t)
  <1>. DEFINE grants == [q \in Request |-> IF req[q].pc \in Admitted THEN req[q].user ELSE None]
  <1>1. /\ req[r].pc \in Admitted /\ req[r].user \in User /\ req[r].user # None
        /\ refreshToken[t] = NoRow
    BY NoneAssumption DEF Mint, Admitted, IInv, FlightOK
  <1>2. /\ refreshToken'[t].status = "live" /\ refreshToken'[t].user = req[r].user
        /\ \A c \in Token : c # t => refreshToken'[c] = refreshToken[c]
        /\ UNCHANGED <<account, userSession, mfaPending>>
    BY DEF Mint, IInv, TypeOK
  <1>3. \/ grants' = [grants EXCEPT ![r] = None]
        \/ grants' = grants
    <2>1. \A q \in Request : q # r => req'[q] = req[q]
      BY DEF Mint, Finish, Continue, IInv, TypeOK
    <2>2. CASE req[r].pc = "remint"
      <3>1. req'[r].pc \notin Admitted
        BY <2>2 DEF Mint, Finish, IInv, TypeOK, Idle, Admitted
      <3>. QED  BY <2>1, <3>1
    <2>3. CASE req[r].pc # "remint"
      <3>1. req'[r].pc \in Admitted /\ req'[r].user = req[r].user
        BY <2>3 DEF Mint, Continue, IInv, TypeOK, Admitted, Handler
      <3>. QED  BY <1>1, <2>1, <3>1
    <2>. QED  BY <2>2, <2>3
  <1>4. refreshToken[t].user = None
    BY <1>1 DEF NoRow
  <1>5. [c \in Token |-> refreshToken[c].user]'
            = [[c \in Token |-> refreshToken[c].user] EXCEPT ![t] = req[r].user]
    BY <1>2
  <1>6. {c \in Token : Live(c)}' = {c \in Token : Live(c)} \cup {t}
    BY <1>2 DEF Live
  <1>. QED  BY <1>1, <1>2, <1>3, <1>4, <1>5, <1>6 DEF Gate!IssueToken

\* createSession() writes a row that did not exist and answers.
LEMMA GateWritesSession ==
  ASSUME IInv, NEW r \in Request, NEW s \in Session, CreateSession(r, s)
  PROVE  Gate!IssueSession(r, s)
  <1>. DEFINE grants == [q \in Request |-> IF req[q].pc \in Admitted THEN req[q].user ELSE None]
  <1>1. /\ req[r].pc \in Admitted /\ req[r].user \in User /\ req[r].user # None
        /\ userSession[s].user = None
        /\ UNCHANGED <<account, refreshToken, mfaPending>>
    BY NoneAssumption DEF CreateSession, NoSession, Admitted, IInv, FlightOK
  <1>2. [x \in Session |-> userSession[x].user]'
            = [[x \in Session |-> userSession[x].user] EXCEPT ![s] = req[r].user]
    BY DEF CreateSession, IInv, TypeOK
  <1>3. grants' = [grants EXCEPT ![r] = None]
    BY DEF CreateSession, Finish, IInv, TypeOK, Idle, Admitted
  <1>. QED  BY <1>1, <1>2, <1>3 DEF Gate!IssueSession, Live

\* The transaction closes the account in the sense of the gate, as long as
\* the handler that runs it holds no grant itself.
LEMMA GateCloses ==
  ASSUME IInv, NEW r \in Request, NEW u \in User, Purge(r, u), req[r].pc \notin Admitted,
         \/ UNCHANGED account
         \/ account' = [account EXCEPT ![u] = "inactive"]
  PROVE  Gate!Close(u)
  <1>1. \A t \in Token :
            /\ refreshToken'[t].user = refreshToken[t].user
            /\ refreshToken'[t].status = "live"
                   <=> refreshToken[t].status = "live" /\ refreshToken[t].user # u
    <2>1. ASSUME NEW t \in Token, refreshToken[t].user = u
          PROVE  refreshToken'[t].user = u /\ refreshToken'[t].status = "dead"
      BY <2>1, NoneAssumption
         DEF IInv, TypeOK, Purge, RevokeTokensOf, PurgedRow, TokenRow, NoRow, Lineage
    <2>2. ASSUME NEW t \in Token, refreshToken[t].user # u
          PROVE  refreshToken'[t] = refreshToken[t]
      BY <2>2 DEF Purge, RevokeTokensOf
    <2>. QED  BY <2>1, <2>2
  <1>2. [t \in Token |-> refreshToken[t].user]' = [t \in Token |-> refreshToken[t].user]
    BY <1>1
  <1>3. {t \in Token : Live(t)}'
            = {t \in {c \in Token : Live(c)} : [c \in Token |-> refreshToken[c].user][t] # u}
    BY <1>1 DEF Live
  <1>4. \A s \in Session : userSession'[s].user
                              = IF userSession[s].user = u THEN None ELSE userSession[s].user
    BY DEF Purge, NoSession
  <1>5. {jwt.user : jwt \in mfaPending}' = {jwt.user : jwt \in mfaPending}
    <2>. DEFINE overtaken(jwt) == IF jwt.user = u THEN [jwt EXCEPT !.lineage = "escaped"] ELSE jwt
    <2>1. \A jwt \in mfaPending : overtaken(jwt).user = jwt.user
      BY DEF IInv, TypeOK, PendingJwt
    <2>2. mfaPending' = {overtaken(jwt) : jwt \in mfaPending}
      BY DEF Purge, OvertakenJwts
    <2>. HIDE DEF overtaken
    <2>. QED  BY <2>1, <2>2
  <1>6. \A q \in Request :
            /\ req'[q].pc \in Admitted <=> req[q].pc \in Admitted
            /\ req[q].pc \in Admitted => req'[q].user = req[q].user
    BY DEF IInv, TypeOK, Purge, Overtaken, Handler, Idle, Admitted
  <1>. QED  BY <1>2, <1>3, <1>4, <1>5, <1>6 DEF Gate!Close

\* Revoking a token by its id makes none good and changes no owner.
LEMMA RevokeLeavesOwner ==
  ASSUME TypeOK, NEW t \in Token, refreshToken' = [refreshToken EXCEPT ![t].status = "dead"],
         NEW c \in Token
  PROVE  refreshToken'[c].user = refreshToken[c].user /\ (Live(c)' => Live(c))
  <1>1. refreshToken'[c].user = refreshToken[c].user
    BY RowFields DEF TypeOK, TokenRow, NoRow
  <1>2. refreshToken'[c].status = IF c = t THEN "dead" ELSE refreshToken[c].status
    BY RowFields DEF TypeOK, TokenRow, NoRow
  <1>. QED  BY <1>1, <1>2 DEF Live

\* Every statement of every handler is a step of the gate, or none.
LEMMA GateStep == IInv /\ IInv' /\ [Next]_vars => [Gate!Next]_(Gate!vars)
  <1>. SUFFICES ASSUME IInv, IInv', [Next]_vars PROVE Gate!Next \/ UNCHANGED Gate!vars
    OBVIOUS
  <1>0. \A r \in Request : req[r].pc \in Admitted => req[r].user \in User
    BY DEF IInv, FlightOK, Admitted
  <1>1. ASSUME NEW u \in User, Register(u) PROVE Gate!Next
    <2>1. Gate!Open(u)
      BY <1>1 DEF Register, Gate!Open, Live
    <2>. QED  BY <2>1 DEF Gate!Next
  <1>2. ASSUME NEW r \in Request, NEW u \in User, AcceptInvite(r, u) PROVE Gate!Next
    <2>1. /\ req[r].pc \notin Admitted
          /\ req'[r].pc \in Admitted /\ req'[r].user = u
          /\ \A q \in Request : q # r => req'[q] = req[q]
      BY <1>2 DEF AcceptInvite, Start, IInv, TypeOK, Idle, Admitted
    <2>2. Gate!OpenGranted(r, u)
      BY <1>2, <2>1 DEF AcceptInvite, Gate!OpenGranted, Live
    <2>. QED  BY <2>2 DEF Gate!Next
  <1>3. ASSUME NEW r \in Request, NEW u \in User, LoginFind(r, u) PROVE Gate!Next
    <2>1. Gate!Grant(r, u)
      BY <1>3, StartGrants DEF LoginFind, MayLogIn, Lineage, Admitted
    <2>. QED  BY <2>1 DEF Gate!Next
  <1>4. ASSUME NEW r \in Request, LoginMfaRequired(r) PROVE Gate!Next
    <2>1. /\ req[r].pc \in Admitted /\ req[r].user \in User /\ req[r].user # None
          /\ req'[r].pc \notin Admitted
          /\ \A q \in Request : q # r => req'[q] = req[q]
          /\ UNCHANGED <<account, refreshToken, userSession>>
      BY <1>0, <1>4, NoneAssumption
         DEF LoginMfaRequired, Finish, IInv, TypeOK, Idle, Admitted
    <2>2. {jwt.user : jwt \in mfaPending}' = {jwt.user : jwt \in mfaPending} \cup {req[r].user}
      <3>. DEFINE signed == [user |-> req[r].user, lineage |-> req[r].lineage]
      <3>1. mfaPending' = mfaPending \cup {signed} /\ signed.user = req[r].user
        BY <1>4 DEF LoginMfaRequired
      <3>. HIDE DEF signed
      <3>2. {jwt.user : jwt \in mfaPending \cup {signed}}
                = {jwt.user : jwt \in mfaPending} \cup {signed.user}
        OBVIOUS
      <3>. QED  BY <2>1, <3>1, <3>2
    <2>3. Gate!Promise(r)
      BY <2>1, <2>2 DEF Gate!Promise, Live
    <2>. QED  BY <2>3 DEF Gate!Next
  <1>5. ASSUME NEW r \in Request, NEW jwt \in mfaPending, MfaFind(r, jwt) PROVE Gate!Next
    <2>1. jwt.user \in User /\ jwt.lineage \in Lineage
      BY DEF IInv, TypeOK, PendingJwt, Lineage
    <2>2. Gate!Grant(r, jwt.user)
      BY <1>5, <2>1, StartGrants DEF MfaFind, Admitted
    <2>. QED  BY <2>1, <2>2 DEF Gate!Next
  <1>6. ASSUME NEW r \in Request, NEW t \in Token, RefreshFind(r, t) PROVE Gate!Next
    <2>1. /\ Live(t)
          /\ account[refreshToken[t].user] = "active"
          /\ Start(r, "rotate", refreshToken[t].user, t, HandedOn(refreshToken[t].lineage))
          /\ UNCHANGED Rows
      BY <1>6 DEF RefreshFind, Refreshable
    <2>2. PICK u \in User, lineage \in Lineage :
              u = refreshToken[t].user /\ lineage = HandedOn(refreshToken[t].lineage)
      BY <2>1, RowFields DEF IInv, Live, NoRow, HandedOn, Lineage
    <2>3. "rotate" \in Admitted /\ t \in Token \cup {None}
      BY DEF Admitted
    <2>4. Gate!Grant(r, u)
      BY <2>1, <2>2, <2>3, StartGrants
    <2>. QED  BY <2>4 DEF Gate!Next
  <1>7. ASSUME NEW r \in Request, NEW u \in User,
               \/ ResetFind(r, u) \/ ActivateFind(r, u) \/ ForceLogoutFind(r, u)
               \/ \E admin \in Admin : DeactivateFind(r, admin, u)
               \/ \E t \in Token : LogoutFind(r, u, t)
        PROVE  UNCHANGED Gate!vars
    BY <1>7, StartStutters
       DEF ResetFind, ActivateFind, ForceLogoutFind, DeactivateFind, LogoutFind, Pc, Admitted,
           Lineage
  <1>8. ASSUME NEW r \in Request, NEW t \in Token, Mint(r, t) PROVE Gate!Next
    BY <1>8, GateMints DEF Gate!Next
  <1>9. ASSUME NEW r \in Request, NEW s \in Session, CreateSession(r, s) PROVE Gate!Next
    BY <1>9, GateWritesSession DEF Gate!Next
  <1>10. ASSUME NEW r \in Request, RefreshRevoke(r) \/ LogoutRevoke(r) PROVE Gate!Next
    <2>1. PICK t \in Token :
              /\ refreshToken' = [refreshToken EXCEPT ![t].status = "dead"]
              /\ UNCHANGED <<account, userSession, mfaPending>>
      BY <1>10 DEF RefreshRevoke, LogoutRevoke, IInv, RotationOK
    <2>2. \A c \in Token : refreshToken'[c].user = refreshToken[c].user /\ (Live(c)' => Live(c))
      BY <2>1, RevokeLeavesOwner DEF IInv
    <2>3. \A q \in Request : req'[q].pc \in Admitted =>
              req[q].pc \in Admitted /\ req'[q].user = req[q].user
      BY <1>10 DEF RefreshRevoke, LogoutRevoke, Continue, IInv, TypeOK, Handler, Admitted
    <2>4. Gate!Lapse
      BY <2>1, <2>2, <2>3, GateLapses
    <2>. QED  BY <2>4 DEF Gate!Next
  <1>11. ASSUME NEW r \in Request, ResetCommit(r) \/ ForceLogoutCommit(r) \/ DeactivateCommit(r)
         PROVE  Gate!Next
    <2>1. req[r].user \in User /\ req[r].pc \notin Admitted
      BY <1>11 DEF ResetCommit, ForceLogoutCommit, DeactivateCommit, IInv, FlightOK, Admitted
    <2>2. PICK u \in User : u = req[r].user
      BY <2>1
    <2>3. Gate!Close(u)
      BY <1>11, <2>1, <2>2, GateCloses DEF ResetCommit, ForceLogoutCommit, DeactivateCommit
    <2>. QED  BY <2>3 DEF Gate!Next
  <1>12. ASSUME NEW r \in Request, ActivateCommit(r) PROVE Gate!Next
    <2>1. /\ req[r].user \in User
          /\ \A q \in Request : /\ req'[q].pc \in Admitted <=> req[q].pc \in Admitted
                                /\ req[q].pc \in Admitted => req'[q] = req[q]
      BY <1>12 DEF ActivateCommit, Finish, Idle, IInv, TypeOK, FlightOK, Admitted
    <2>2. Gate!Open(req[r].user)
      BY <1>12, <2>1 DEF ActivateCommit, Gate!Open, Live
    <2>. QED  BY <2>1, <2>2 DEF Gate!Next
  <1>13. ASSUME \/ \E r \in Request : Abandon(r)
                \/ \E r \in Request, s \in Session \cup {None} : LogoutSession(r, s)
                \/ \E r \in Request : RevokeSessionDelete(r) \/ RevokeAllDelete(r)
                \/ \E t \in Token : TokenExpires(t)
                \/ \E jwt \in mfaPending : JwtExpires(jwt)
         PROVE  Gate!Next
    <2>1. /\ UNCHANGED account
          /\ mfaPending' \subseteq mfaPending
      BY <1>13 DEF Abandon, LogoutSession, RevokeSessionDelete, RevokeAllDelete, TokenExpires, JwtExpires
    <2>2. \A t \in Token : refreshToken'[t].user = refreshToken[t].user /\ (Live(t)' => Live(t))
      <3>1. \/ UNCHANGED refreshToken
            \/ \E t \in Token : refreshToken' = [refreshToken EXCEPT ![t].status = "dead"]
        BY <1>13
           DEF Abandon, LogoutSession, RevokeSessionDelete, RevokeAllDelete, TokenExpires, JwtExpires
      <3>. QED  BY <3>1, RevokeLeavesOwner DEF IInv, Live
    <2>3. \A s \in Session : userSession'[s].user \in {userSession[s].user, None}
      BY <1>13
         DEF Abandon, LogoutSession, RevokeSessionDelete, RevokeAllDelete, TokenExpires, JwtExpires,
             DeleteSessions, NoSession
    <2>4. \A r \in Request : req'[r].pc \in Admitted => req'[r] = req[r]
      <3>1. UNCHANGED req \/ \E r \in Request : Finish(r)
        BY <1>13
           DEF Abandon, LogoutSession, RevokeSessionDelete, RevokeAllDelete, TokenExpires, JwtExpires
      <3>. QED  BY <3>1 DEF Finish, Idle, Admitted, IInv, TypeOK
    <2>5. Gate!Lapse
      BY <2>1, <2>2, <2>3, <2>4, GateLapses
    <2>. QED  BY <2>5 DEF Gate!Next
  <1>14. CASE UNCHANGED vars
    BY <1>14 DEF vars, Gate!vars, Live
  <1>15. ASSUME NEW r \in Request, NEW u \in User, NEW s \in Session \cup {None},
                (s \in Session /\ RevokeSessionFind(r, u, s)) \/ RevokeAllFind(r, u, s)
         PROVE  UNCHANGED Gate!vars
    <2>1. \A q \in Request : (req'[q].pc \in Admitted <=> req[q].pc \in Admitted)
                             /\ (req[q].pc \in Admitted => req'[q] = req[q])
      BY <1>15 DEF RevokeSessionFind, RevokeAllFind, StartOnSession, IInv, TypeOK, Idle, Admitted
    <2>. QED  BY <1>15, <2>1 DEF RevokeSessionFind, RevokeAllFind, Gate!vars, Live
  <1>. QED
    BY <1>1, <1>2, <1>3, <1>4, <1>5, <1>6, <1>7, <1>8, <1>9, <1>10, <1>11, <1>12, <1>13, <1>14,
       <1>15
       DEF Next

\* For any number of users, tokens, sessions and handlers: credentials are
\* issued under a grant only, a void token stays void, and an account is
\* closed together with all it was issued.
THEOREM SessionsImplementGate == Spec => ImplementsSessionGate
  BY GateInit, GateStep, SpecIInv, PTL DEF Spec, ImplementsSessionGate, Gate!Spec

\* No two tokens are successors of one.
SpentOnce ==
    \A c, d \in Token :
        /\ refreshToken[c].parent # None
        /\ refreshToken[c].parent = refreshToken[d].parent
        => c = d

\* A refresh token is spent by its rotation if the server runs one handler
\* at a time: only requests that overlap can make refreshTokens() give it a
\* second successor.
THEOREM SerialRotationSpends ==
  ASSUME \A r, q \in Request : r = q
  PROVE  Spec => []SpentOnce
  <1>1. IInv => SpentOnce
    BY RowFields DEF IInv, OneSuccessorPerHandler, SpentOnce
  <1>. QED  BY <1>1, SpecIInv, PTL

-----------------------------------------------------------------------------
(* The password check of a login.                                          *)

\* The columns and what the logins read of them keep their types.
LEMMA LockoutNextTypeOK == LockoutTypeOK /\ [LockoutNext]_lockoutVars => LockoutTypeOK'
  <1>. SUFFICES ASSUME LockoutTypeOK, [LockoutNext]_lockoutVars PROVE LockoutTypeOK'
    OBVIOUS
  <1>. USE MaxAttemptsAssumption DEF LockoutTypeOK, LockState, Attempts, Check, NotRunning
  <1>1. ASSUME NEW r \in Login, FindUser(r) PROVE LockoutTypeOK'
    BY <1>1 DEF FindUser, NotLocked
  <1>2. ASSUME NEW r \in Login, WrongPassword(r) PROVE LockoutTypeOK'
    <2>1. check[r].attempts \in Attempts
      BY <1>2 DEF WrongPassword
    <2>. QED  BY <1>2, <2>1 DEF WrongPassword, Succ
  <1>3. ASSUME NEW r \in Login, RightPassword(r) PROVE LockoutTypeOK'
    BY <1>3 DEF RightPassword, ClearIfNeeded
  <1>4. ASSUME NEW r \in Login, Crash(r) PROVE LockoutTypeOK'
    BY <1>4 DEF Crash
  <1>5. CASE LockLapses
    BY <1>5 DEF LockLapses
  <1>6. CASE UNCHANGED lockoutVars
    BY <1>6 DEF lockoutVars
  <1>. QED  BY <1>1, <1>2, <1>3, <1>4, <1>5, <1>6 DEF LockoutNext, AnyWrong, AnyRight

\* The counter of validateUser() stays at most one past the limit, and what
\* the logins in flight read of it does too.
THEOREM LockoutTypeCorrect == LockoutSpec => []LockoutTypeOK
  <1>1. LockoutInit => LockoutTypeOK
    BY MaxAttemptsAssumption DEF LockoutInit, LockoutTypeOK, LockState, Attempts, Check, NotRunning
  <1>. QED  BY <1>1, LockoutNextTypeOK, PTL DEF LockoutSpec

\* The two columns are written together or the counter stays below the
\* limit; so no interleaving parts a full counter from its lock.
THEOREM CounterAndLockAgree == LockoutSpec => []FullCounterIsLocked
  <1>1. LockoutInit => FullCounterIsLocked
    BY MaxAttemptsAssumption DEF LockoutInit, FullCounterIsLocked
  <1>2. FullCounterIsLocked /\ LockoutTypeOK /\ [LockoutNext]_lockoutVars => FullCounterIsLocked'
    <2>. SUFFICES ASSUME FullCounterIsLocked, LockoutTypeOK, [LockoutNext]_lockoutVars PROVE FullCounterIsLocked'
      OBVIOUS
    <2>1. ASSUME NEW r \in Login, WrongPassword(r) PROVE FullCounterIsLocked'
      BY <2>1 DEF WrongPassword, Locks, FullCounterIsLocked
    <2>2. ASSUME NEW r \in Login, RightPassword(r) PROVE FullCounterIsLocked'
      BY <2>2, MaxAttemptsAssumption DEF RightPassword, ClearIfNeeded, FullCounterIsLocked
    <2>. QED
      BY <2>1, <2>2
         DEF LockoutNext, AnyWrong, AnyRight, FindUser, Crash, LockLapses, lockoutVars, FullCounterIsLocked
  <1>. QED  BY <1>1, <1>2, LockoutTypeCorrect, PTL DEF LockoutSpec

-----------------------------------------------------------------------------

\* With one login at a time, what it read is what is there, so the counter
\* counts.
Counts ==
    /\ wrongInARow = IF failedAttempts < LoginMaxAttempts THEN failedAttempts ELSE LoginMaxAttempts
    /\ \A r \in Login : check[r] # NotRunning => check[r].attempts = failedAttempts

\* The documented limit holds of an account whose logins never overlap: only
\* concurrent logins can break it.
THEOREM SerialLoginsCount ==
  ASSUME \A r, q \in Login : r = q
  PROVE  LockoutSpec => []SixthIsRefused
  <1>. USE MaxAttemptsAssumption
  <1>1. LockoutInit => Counts
    BY DEF LockoutInit, Counts, NotRunning
  <1>2. Counts /\ LockoutTypeOK /\ [LockoutNext]_lockoutVars => Counts'
    <2>. SUFFICES ASSUME Counts, LockoutTypeOK, [LockoutNext]_lockoutVars PROVE Counts'
      OBVIOUS
    <2>. USE DEF Counts, LockoutTypeOK, Check, NotRunning, Attempts
    <2>1. ASSUME NEW r \in Login, FindUser(r) PROVE Counts'
      BY <2>1 DEF FindUser
    <2>2. ASSUME NEW r \in Login, WrongPassword(r) PROVE Counts'
      BY <2>2 DEF WrongPassword, Succ
    <2>3. ASSUME NEW r \in Login, RightPassword(r) PROVE Counts'
      BY <2>3 DEF RightPassword, ClearIfNeeded
    <2>4. ASSUME NEW r \in Login, Crash(r) PROVE Counts'
      BY <2>4 DEF Crash
    <2>. QED
      BY <2>1, <2>2, <2>3, <2>4 DEF LockoutNext, AnyWrong, AnyRight, LockLapses, lockoutVars
  <1>3. Counts /\ LockoutTypeOK /\ FullCounterIsLocked => SixthIsRefused
    BY DEF Counts, LockoutTypeOK, Attempts, FullCounterIsLocked, SixthIsRefused
  <1>. QED  BY <1>1, <1>2, <1>3, LockoutTypeCorrect, CounterAndLockAgree, PTL DEF LockoutSpec
=============================================================================
