------------------------------ MODULE Accounts ------------------------------
(***************************************************************************)
(* Registration and login (internal/usecase/auth.go), with the table of    *)
(* users they share and the requests as they come through                  *)
(* handler.register and handler.login.                                     *)
(*                                                                         *)
(* A request is a sequence of database calls; each is a step and may fail, *)
(* with or without effect, and between any two of them others go on.  An   *)
(* account is known by the registration that made it (its fresh uuid).  A  *)
(* stored hash stands for the password it was made from, and a token for   *)
(* the account it names; its role, always "user" since nothing sets        *)
(* another, and its expiry are left out.                                   *)
(***************************************************************************)
EXTENDS Integers, FiniteSets

CONSTANTS Registrations, Logins,  \* requests
          Emails, Passwords,      \* what they may contain, long enough for the checks
          TooLong,                \* passwords bcrypt refuses to hash
          MaxTime,                \* bound on the clock
          MaxFaults               \* bound on failed or unconfirmed calls

Requests == Registrations \cup Logins

ASSUME AccountsAssumption ==
  /\ Registrations \cap Logins = {}
  /\ TooLong \subseteq Passwords
  /\ MaxTime \in Nat \ {0} /\ MaxFaults \in Nat

VARIABLES at,         \* the call each request makes next
          email,      \* what the request says
          password,
          accounts,   \* users: the registrations that have a row
          lastLogin,  \* users.last_login_at, 0 for null
          found,      \* the row a login has read, as a set of at most one
          answer,     \* how the request was answered
          token,      \* the account its token names, as a set of at most one
          seen,       \* history: the time a login read the clock
          now,        \* the clock
          faults      \* failed or unconfirmed calls so far

vars == <<at, email, password, accounts, lastLogin, found, answer, token, seen,
          now, faults>>

Steps == {"new", "lookup", "create", "sign", "touch", "done"}

Answers == {"none", "ok", "taken", "denied", "error"}

Init ==
  /\ at        = [q \in Requests |-> "new"]
  /\ email     \in [Requests -> Emails]
  /\ password  \in [Requests -> Passwords]
  /\ accounts  = {}
  /\ lastLogin = [a \in Registrations |-> 0]
  /\ found     = [q \in Requests |-> {}]
  /\ answer    = [q \in Requests |-> "none"]
  /\ token     = [q \in Requests |-> {}]
  /\ seen      = [q \in Requests |-> 0]
  /\ now       = 1
  /\ faults    = 0

Fault == faults < MaxFaults /\ faults' = faults + 1

\* FindByEmail: the rows with this address.
FindByEmail(e) == {a \in accounts : email[a] = e}

Goto(q, step) == at' = [at EXCEPT ![q] = step]

Answer(q, a) ==
  /\ Goto(q, "done")
  /\ answer' = [answer EXCEPT ![q] = a]

Arrive(q) ==
  /\ at[q] = "new"
  /\ Goto(q, "lookup")
  /\ UNCHANGED <<email, password, accounts, lastLogin, found, answer, token,
                 seen, now, faults>>

Tick ==
  /\ now < MaxTime
  /\ now' = now + 1
  /\ UNCHANGED <<at, email, password, accounts, lastLogin, found, answer, token,
                 seen, faults>>

-----------------------------------------------------------------------------
(* AuthService.Register. *)

\* With no error from FindByEmail the address is taken; then the hash, which a
\* password of more than 72 bytes does not get.
LookUpAddress(q) ==
  /\ q \in Registrations /\ at[q] = "lookup"
  /\ IF FindByEmail(email[q]) # {} THEN Answer(q, "taken")
     ELSE IF password[q] \in TooLong THEN Answer(q, "error")
     ELSE Goto(q, "create") /\ UNCHANGED answer
  /\ UNCHANGED <<email, password, accounts, lastLogin, found, token, seen, now, faults>>

\* Any error of FindByEmail, also that of a database that is away, counts as "no
\* such user".
LookUpAddressFails(q) ==
  /\ Fault
  /\ q \in Registrations /\ at[q] = "lookup"
  /\ IF password[q] \in TooLong
     THEN Answer(q, "error")
     ELSE Goto(q, "create") /\ UNCHANGED answer
  /\ UNCHANGED <<email, password, accounts, lastLogin, found, token, seen, now>>

\* (a mistake: only the lookup keeps addresses apart)
InsertsAlways(q) == TRUE

\* users.email is unique.
Inserts(q) == FindByEmail(email[q]) = {}

\* UsersRepo.Create: a second row of an address is an error like any other.
Create(q) ==
  /\ q \in Registrations /\ at[q] = "create"
  /\ IF Inserts(q)
     THEN accounts' = accounts \cup {q} /\ Goto(q, "sign") /\ UNCHANGED answer
     ELSE Answer(q, "error") /\ UNCHANGED accounts
  /\ UNCHANGED <<email, password, lastLogin, found, token, seen, now, faults>>

\* The insert fails, or took place and its confirmation was lost.
CreateFails(q) ==
  /\ Fault
  /\ q \in Registrations /\ at[q] = "create"
  /\ \/ Inserts(q) /\ accounts' = accounts \cup {q}
     \/ UNCHANGED accounts
  /\ Answer(q, "error")
  /\ UNCHANGED <<email, password, lastLogin, found, token, seen, now>>

-----------------------------------------------------------------------------
(* AuthService.Login. *)

\* (a mistake: whoever knows the address is let in)
FindUserUnchecked(q) ==
  /\ q \in Logins /\ at[q] = "lookup"
  /\ found' = [found EXCEPT ![q] = FindByEmail(email[q])]
  /\ IF found'[q] # {}
     THEN Goto(q, "touch") /\ seen' = [seen EXCEPT ![q] = now] /\ UNCHANGED answer
     ELSE Answer(q, "denied") /\ UNCHANGED seen
  /\ UNCHANGED <<email, password, accounts, lastLogin, token, now, faults>>

\* FindByEmail and CompareHashAndPassword, of whole passwords (bcrypt compares the
\* first 72 bytes); then Clock.Now.
FindUser(q) ==
  LET user == {a \in FindByEmail(email[q]) : password[a] = password[q]}
  IN  /\ q \in Logins /\ at[q] = "lookup"
      /\ found' = [found EXCEPT ![q] = user]
      /\ IF user # {}
         THEN Goto(q, "touch") /\ seen' = [seen EXCEPT ![q] = now] /\ UNCHANGED answer
         ELSE Answer(q, "denied") /\ UNCHANGED seen
      /\ UNCHANGED <<email, password, accounts, lastLogin, token, now, faults>>

\* (a mistake: the error is logged and the login goes on)
FindUserFailsOpen(q) ==
  /\ Fault
  /\ q \in Logins /\ at[q] = "lookup"
  /\ Goto(q, "touch")
  /\ UNCHANGED <<email, password, accounts, lastLogin, found, answer, token, seen, now>>

\* An error of the database is answered like a wrong password.
FindUserFails(q) ==
  /\ Fault
  /\ q \in Logins /\ at[q] = "lookup"
  /\ Answer(q, "denied")
  /\ UNCHANGED <<email, password, accounts, lastLogin, found, token, seen, now>>

\* UpdateLastLogin, with the time read before: of two logins the later update
\* stays, whichever time it carries.
UpdateLastLogin(q) ==
  /\ at[q] = "touch"
  /\ lastLogin' = [a \in Registrations |-> IF a \in found[q] THEN seen[q] ELSE lastLogin[a]]
  /\ Goto(q, "sign")
  /\ UNCHANGED <<email, password, accounts, found, answer, token, seen, now, faults>>

\* Its error is dropped, and the update may have taken place.
UpdateLastLoginFails(q) ==
  /\ Fault
  /\ at[q] = "touch"
  /\ UNCHANGED lastLogin
  /\ Goto(q, "sign")
  /\ UNCHANGED <<email, password, accounts, found, answer, token, seen, now>>

-----------------------------------------------------------------------------
\* Signer.Sign for the account just made or found, and the answer 201 or 200.
Sign(q) ==
  /\ at[q] = "sign"
  /\ token' = [token EXCEPT ![q] = IF q \in Registrations THEN {q} ELSE found[q]]
  /\ Answer(q, "ok")
  /\ UNCHANGED <<email, password, accounts, lastLogin, found, seen, now, faults>>

\* The process stops or the client goes away: no answer, no further call.
Abandon(q) ==
  /\ Fault
  /\ at[q] \notin {"new", "done"}
  /\ Goto(q, "done")
  /\ UNCHANGED <<email, password, accounts, lastLogin, found, answer, token, seen, now>>

Register(q) == LookUpAddress(q) \/ Create(q)

Login(q) == FindUser(q) \/ UpdateLastLogin(q)

Disturbed(q) ==
  \/ LookUpAddressFails(q) \/ CreateFails(q)
  \/ FindUserFails(q) \/ UpdateLastLoginFails(q)
  \/ Abandon(q)

Next ==
  \/ \E q \in Requests : Arrive(q) \/ Register(q) \/ Login(q) \/ Sign(q) \/ Disturbed(q)
  \/ Tick

Spec == Init /\ [][Next]_vars

-----------------------------------------------------------------------------
(* Properties. *)

\* Every variable has its type; what a login has found is an account, one at
\* most, and it holds on to it until it is answered.
TypeOK ==
  /\ at \in [Requests -> Steps]
  /\ email \in [Requests -> Emails] /\ password \in [Requests -> Passwords]
  /\ accounts \subseteq Registrations
  /\ lastLogin \in [Registrations -> 0..MaxTime]
  /\ {found, token} \subseteq [Requests -> SUBSET Registrations]
  /\ \A q \in Logins : found[q] \subseteq accounts
  /\ \A q \in Logins : at[q] \in {"touch", "sign"} => found[q] # {}
  /\ answer \in [Requests -> Answers]
  /\ seen \in [Requests -> 0..MaxTime]
  /\ now \in 1..MaxTime /\ faults \in 0..MaxFaults

\* An address has one account, although two registrations may both have found
\* it free before either inserts (auth.go:28 and 47), or could not look at all.
OneAccountPerAddress ==
  \A a, b \in accounts : email[a] = email[b] => a = b

\* A token names an account that exists, and went to a request with the address
\* and the password of that account: the loser of a race for an address gets
\* none, although it found the address free.
TokensEarned ==
  \A q \in Requests : \A a \in token[q] :
    a \in accounts /\ email[a] = email[q] /\ password[a] = password[q]

\* last_login_at is the time at which somebody logged in with the right
\* password, not necessarily the last: updates may be lost or overtake.
LastLoginEarned ==
  \A a \in Registrations : lastLogin[a] # 0 =>
    /\ a \in accounts
    /\ \E q \in Logins : /\ email[q] = email[a] /\ password[q] = password[a]
                        /\ seen[q] = lastLogin[a]

\* Both of what only the right password may bring about.
CredentialsEarned == TokensEarned /\ LastLoginEarned
=============================================================================
