----------------------------- MODULE Disclosures -----------------------------
(***************************************************************************)
(* The recording disclosures of an organisation, createDisclosure() and    *)
(* updateDisclosure() in compliance.service.ts.  The handlers clear the    *)
(* old default of a jurisdiction and language in one statement and write   *)
(* the new one in a later one.  (FSD 2.2 describes is_default as the       *)
(* default of a jurisdiction; the code lets each language of it have one.) *)
(* Rows are never removed.  The name, the text and the audio are left out. *)
(***************************************************************************)
EXTENDS Naturals, FiniteSets

CONSTANTS
    Disclosure,    \* ids for rows of recording_disclosures
    Jurisdiction,  \* what rows have in the column jurisdiction
    Language,      \* what rows have in the column language
    Request,       \* handlers the server runs at the same time
    Null           \* null, or a field the request does not give

\* What the code clears the old default by.
Key == [jurisdiction : Jurisdiction, language : Language]

\* What an update gives: both parts of the key, one, or none.
Change == [jurisdiction : Jurisdiction \cup {Null}, language : Language \cup {Null}]

NoChange == [jurisdiction |-> Null, language |-> Null]

ASSUME NullAssumption ==
    Null \notin Disclosure \cup Request \cup Jurisdiction \cup Language \cup Key \cup BOOLEAN

VARIABLES
    disclosure,  \* the rows of recording_disclosures
    req,         \* what each handler waits for, and what it has read
    how          \* history: how each row became the default of its key

disclosureVars == <<disclosure, req, how>>

NoDisclosure == [key |-> Null, default |-> FALSE]

DisclosureRow == {NoDisclosure} \cup [key : Key, default : BOOLEAN]

\* key: for which the old default is cleared; to: what the request gives of it.
\* late: since it was cleared another handler has written a default there.
Idle == [pc |-> "idle", row |-> Null, key |-> Null, to |-> NoChange,
         default |-> Null, late |-> FALSE]

Handler ==
    [pc : {"idle", "clear", "insert", "write"}, row : Disclosure \cup {Null},
     key : Key \cup {Null}, to : Change,
     default : {TRUE, FALSE, Null}, late : BOOLEAN]

DisclosureTypeOK ==
    /\ disclosure \in [Disclosure -> DisclosureRow]
    /\ req \in [Request -> Handler]
    /\ how \in [Disclosure -> {"none", "cleared", "late", "moved"}]
    /\ \A d \in Disclosure : disclosure[d].default <=> how[d] # "none"

DisclosureInit ==
    /\ disclosure = [d \in Disclosure |-> NoDisclosure]
    /\ req = [r \in Request |-> Idle]
    /\ how = [d \in Disclosure |-> "none"]

DefaultsOf(k) == {d \in Disclosure : disclosure[d].default /\ disclosure[d].key = k}

\* The rows that updateMany clears for key k, other than d.
Cleared(k, d) == DefaultsOf(k) \ {d}

Start(r, handler) == req[r] = Idle /\ req' = [req EXCEPT ![r] = handler]

\* The handlers when r, which ends, has made a row the default of key k.
FinishDefault(r, k) ==
    req' = [q \in Request |->
        IF q = r THEN Idle
        ELSE IF req[q].pc \in {"insert", "write"} /\ req[q].key = k
        THEN [req[q] EXCEPT !.late = TRUE] ELSE req[q]]

Finish(r) == req' = [req EXCEPT ![r] = Idle]

-----------------------------------------------------------------------------

CreateBegin(r, k) ==
    /\ Start(r, [pc |-> "clear", row |-> Null, key |-> k, to |-> NoChange,
                 default |-> TRUE, late |-> FALSE])
    /\ UNCHANGED <<disclosure, how>>

\* Without is_default there is one statement.
CreatePlain(d, k) ==
    /\ disclosure[d] = NoDisclosure
    /\ disclosure' = [disclosure EXCEPT ![d] = [key |-> k, default |-> FALSE]]
    /\ UNCHANGED <<req, how>>

Clear(r) ==
    LET gone == Cleared(req[r].key, req[r].row) IN
    /\ req[r].pc = "clear"
    /\ disclosure' = [d \in Disclosure |->
                 IF d \in gone THEN [disclosure[d] EXCEPT !.default = FALSE] ELSE disclosure[d]]
    /\ how' = [d \in Disclosure |-> IF d \in gone THEN "none" ELSE how[d]]
    /\ req' = [req EXCEPT ![r].pc = IF req[r].row = Null THEN "insert" ELSE "write"]

Insert(r, d) ==
    LET k == req[r].key IN
    /\ req[r].pc = "insert"
    /\ disclosure[d] = NoDisclosure
    /\ disclosure' = [disclosure EXCEPT ![d] = [key |-> k, default |-> TRUE]]
    /\ how' = [how EXCEPT ![d] = IF req[r].late THEN "late" ELSE "cleared"]
    /\ FinishDefault(r, k)

Part == {"jurisdiction", "language"}

\* A key with the parts that a request gives; the others stay.
With(key, to) == [part \in Part |-> IF to[part] = Null THEN key[part] ELSE to[part]]

\* Seeded fault: the old default is cleared for the key the row had.
KeyBefore(d, to) == disclosure[d].key

\* The key that an update of row d clears.
KeyAfter(d, to) == With(disclosure[d].key, to)

\* Without is_default: true nothing is cleared.
UpdateFind(r, d, to, default) ==
    /\ disclosure[d] # NoDisclosure
    /\ Start(r, [pc |-> IF default = TRUE THEN "clear" ELSE "write", row |-> d,
                 key |-> KeyAfter(d, to), to |-> to, default |-> default, late |-> FALSE])
    /\ UNCHANGED <<disclosure, how>>

\* The row as the request leaves it: what it does not give stays.
Updated(r) ==
    LET d == req[r].row IN
    [key |-> With(disclosure[d].key, req[r].to),
     default |-> IF req[r].default = Null THEN disclosure[d].default ELSE req[r].default]

\* The row has another key than r has read, in a part that r does not give.
Rekeyed(r) ==
    \E part \in Part :
        req[r].to[part] = Null /\ disclosure[req[r].row].key[part] # req[r].key[part]

\* How row d comes to be what r makes of it.
HowUpdated(r) ==
    LET d == req[r].row
        new == Updated(r) IN
    IF ~new.default THEN "none"
    ELSE IF req[r].default = TRUE
    THEN IF req[r].late \/ Rekeyed(r) THEN "late" ELSE "cleared"
    ELSE IF new.key # disclosure[d].key THEN "moved" ELSE how[d]

Update(r) ==
    LET d == req[r].row
        new == Updated(r) IN
    /\ req[r].pc = "write"
    /\ disclosure' = [disclosure EXCEPT ![d] = new]
    /\ how' = [how EXCEPT ![d] = HowUpdated(r)]
    /\ IF new.default /\ new # disclosure[d] THEN FinishDefault(r, new.key) ELSE Finish(r)

\* A handler that throws or is stopped.
Abandon(r) == req[r] # Idle /\ Finish(r) /\ UNCHANGED <<disclosure, how>>

DisclosureNext ==
    \/ \E r \in Request :
         \/ \E k \in Key : CreateBegin(r, k)
         \/ Clear(r)
         \/ \E d \in Disclosure : Insert(r, d)
         \/ \E d \in Disclosure, to \in Change, default \in {TRUE, FALSE, Null} :
              UpdateFind(r, d, to, default)
         \/ Update(r)
         \/ Abandon(r)
    \/ \E d \in Disclosure, k \in Key : CreatePlain(d, k)

DisclosureSpec == DisclosureInit /\ [][DisclosureNext]_disclosureVars

-----------------------------------------------------------------------------

\* Of two defaults of one jurisdiction and language, one was written after
\* another default had overtaken it between its two statements, or for a row
\* that had changed its key in between; or it was moved there by an update that
\* says nothing about is_default, for which updateDisclosure() clears nothing.
\* (Two languages of one jurisdiction may have a default each at any time:
\* OneDefaultPerJurisdiction does not hold.)
TwoDefaultsAreLate ==
    \A k \in Key : \A c, d \in DefaultsOf(k) :
        c # d => {how[c], how[d]} \cap {"late", "moved"} # {}

\* A jurisdiction has one default: what the FSD says of is_default.
OneDefaultPerJurisdiction ==
    \A c, d \in Disclosure :
        /\ disclosure[c].default /\ disclosure[d].default
        /\ disclosure[c].key.jurisdiction = disclosure[d].key.jurisdiction
        => c = d
=============================================================================
