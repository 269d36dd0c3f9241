--------------------------- MODULE Accounts_proofs ---------------------------
(***************************************************************************)
(* Proofs about Accounts, for any requests, addresses, passwords, times    *)
(* and number of faults.                                                   *)
(***************************************************************************)
EXTENDS Accounts, TLAPS

\* What a request knows at the call it makes next: nothing is found, nor the clock
\* read, before the lookup; what a login found matches what it was given; and a
\* registration that is about to sign has its row.
RequestSound(q) ==
  /\ at[q] \in {"new", "lookup"} => seen[q] = 0 /\ found[q] = {}
  /\ at[q] = "touch" => q \in Logins
  /\ q \in Registrations /\ at[q] = "sign" => q \in accounts
  /\ q \in Logins =>
       \A a \in found[q] : email[a] = email[q] /\ password[a] = password[q]

AccountsInv ==
  /\ TypeOK /\ OneAccountPerAddress /\ TokensEarned /\ LastLoginEarned
  /\ \A q \in Requests : RequestSound(q)

-----------------------------------------------------------------------------
LEMMA AccountsInit == AccountsAssumption /\ Init => AccountsInv
<1> SUFFICES ASSUME AccountsAssumption, Init PROVE AccountsInv
  OBVIOUS
<1>1. TypeOK
  BY DEF AccountsAssumption, Init, TypeOK, Requests, Steps, Answers
<1>2. OneAccountPerAddress /\ TokensEarned /\ LastLoginEarned
  BY DEF Init, OneAccountPerAddress, TokensEarned, LastLoginEarned
<1>3. \A q \in Requests : RequestSound(q)
  BY DEF Init, RequestSound, Requests
<1> QED BY <1>1, <1>2, <1>3 DEF AccountsInv

-----------------------------------------------------------------------------
\* A step that takes a request on and changes no account, login time or token.
LEMMA QuietStep ==
  ASSUME AccountsAssumption, AccountsInv, NEW q \in Requests, NEW step \in Steps,
         Goto(q, step),
         answer' \in [Requests -> Answers], faults' \in 0..MaxFaults,
         UNCHANGED <<email, password, accounts, lastLogin, found, token, seen, now>>,
         step \in {"new", "lookup"} => at[q] = "new",
         step # "touch",
         step = "sign" => at[q] = "touch"
  PROVE  AccountsInv'
<1>1. /\ at' \in [Requests -> Steps]
      /\ at'[q] = step /\ \A r \in Requests : r # q => at'[r] = at[r]
  BY DEF AccountsInv, TypeOK, Goto
<1>2. TypeOK'
  BY <1>1 DEF AccountsInv, TypeOK, Requests
<1>3. OneAccountPerAddress' /\ TokensEarned' /\ LastLoginEarned'
  BY DEF AccountsInv, OneAccountPerAddress, TokensEarned, LastLoginEarned
<1>4. \A r \in Requests : RequestSound(r)'
  BY <1>1 DEF AccountsAssumption, AccountsInv, RequestSound
<1> QED BY <1>2, <1>3, <1>4 DEF AccountsInv

\* A registration inserts its row, if the address is free, and goes on or not.
LEMMA InsertStep ==
  ASSUME AccountsAssumption, AccountsInv, NEW q \in Registrations,
         NEW step \in {"sign", "done"}, Goto(q, step),
         Inserts(q), accounts' = accounts \cup {q},
         answer' \in [Requests -> Answers], faults' \in 0..MaxFaults,
         UNCHANGED <<email, password, lastLogin, found, token, seen, now>>
  PROVE  AccountsInv'
<1>1. /\ q \in Requests /\ at' \in [Requests -> Steps]
      /\ at'[q] = step /\ \A r \in Requests : r # q => at'[r] = at[r]
  BY DEF AccountsInv, TypeOK, Goto, Requests, Steps
<1>2. TypeOK'
  BY <1>1 DEF AccountsAssumption, AccountsInv, TypeOK, Requests
<1>3. OneAccountPerAddress'
  BY DEF AccountsInv, OneAccountPerAddress, Inserts, FindByEmail
<1>4. TokensEarned' /\ LastLoginEarned'
  BY DEF AccountsInv, TokensEarned, LastLoginEarned
<1>5. \A r \in Requests : RequestSound(r)'
  BY <1>1 DEF AccountsAssumption, AccountsInv, RequestSound
<1> QED BY <1>2, <1>3, <1>4, <1>5 DEF AccountsInv

\* A login has found its user and reads the clock.
LEMMA FoundStep ==
  ASSUME AccountsAssumption, AccountsInv, NEW q \in Requests, FindUser(q), Goto(q, "touch")
  PROVE  AccountsInv'
<1> DEFINE user == {a \in FindByEmail(email[q]) : password[a] = password[q]}
<1>1. /\ q \in Logins /\ at[q] = "lookup"
      /\ found' = [found EXCEPT ![q] = user]
      /\ user # {} /\ seen' = [seen EXCEPT ![q] = now]
      /\ UNCHANGED <<answer, email, password, accounts, lastLogin, token, now, faults>>
  <2>1. at[q] = "lookup" /\ at'[q] = "touch"
    BY DEF FindUser, Goto, AccountsInv, TypeOK
  <2>2. ~Answer(q, "denied")
    BY <2>1 DEF Answer, Goto, AccountsInv, TypeOK
  <2> QED BY <2>2 DEF FindUser
<1>2. user \subseteq accounts /\ \A a \in user : email[a] = email[q] /\ password[a] = password[q]
  BY DEF FindByEmail
<1> HIDE DEF user
<1>3. /\ at' \in [Requests -> Steps] /\ at'[q] = "touch"
      /\ found' \in [Requests -> SUBSET Registrations] /\ found'[q] = user
      /\ seen' \in [Requests -> 0..MaxTime] /\ seen'[q] = now
      /\ \A r \in Requests : r # q =>
           at'[r] = at[r] /\ found'[r] = found[r] /\ seen'[r] = seen[r]
  BY <1>1, <1>2 DEF AccountsAssumption, AccountsInv, TypeOK, Goto, Steps
<1>4. TypeOK'
  BY <1>1, <1>2, <1>3 DEF AccountsInv, TypeOK, Requests
<1>5. OneAccountPerAddress' /\ TokensEarned'
  BY <1>1 DEF AccountsInv, OneAccountPerAddress, TokensEarned
<1>6. LastLoginEarned'
  <2>1. seen[q] = 0
    BY <1>1 DEF AccountsInv, RequestSound
  <2>2. \A r \in Logins : seen[r] # 0 => seen'[r] = seen[r]
    BY <1>3, <2>1 DEF Requests
  <2> QED BY <1>1, <2>2 DEF AccountsInv, LastLoginEarned
<1>7. \A r \in Requests : RequestSound(r)'
  BY <1>1, <1>2, <1>3 DEF AccountsAssumption, AccountsInv, RequestSound
<1> QED BY <1>4, <1>5, <1>6, <1>7 DEF AccountsInv

\* A login notes its time.
LEMMA TouchStep ==
  ASSUME AccountsAssumption, AccountsInv, NEW q \in Requests, UpdateLastLogin(q)
  PROVE  AccountsInv'
<1>1. /\ q \in Logins /\ at[q] = "touch" /\ Goto(q, "sign")
      /\ found[q] # {} /\ found[q] \subseteq accounts
      /\ \A a \in found[q] : email[a] = email[q] /\ password[a] = password[q]
      /\ UNCHANGED <<email, password, accounts, found, answer, token, seen, now, faults>>
  BY DEF UpdateLastLogin, AccountsInv, TypeOK, RequestSound, Requests
<1>2. /\ at' \in [Requests -> Steps] /\ at'[q] = "sign"
      /\ \A r \in Requests : r # q => at'[r] = at[r]
  BY <1>1 DEF AccountsInv, TypeOK, Goto, Steps
<1>3. /\ lastLogin' \in [Registrations -> 0..MaxTime]
      /\ \A a \in Registrations :
           lastLogin'[a] = IF a \in found[q] THEN seen[q] ELSE lastLogin[a]
  BY DEF UpdateLastLogin, AccountsInv, TypeOK
<1>4. TypeOK'
  BY <1>1, <1>2, <1>3 DEF AccountsInv, TypeOK, Requests
<1>5. OneAccountPerAddress' /\ TokensEarned'
  BY <1>1 DEF AccountsInv, OneAccountPerAddress, TokensEarned
<1>6. LastLoginEarned'
  BY <1>1, <1>3 DEF AccountsInv, LastLoginEarned
<1>7. \A r \in Requests : RequestSound(r)'
  BY <1>1, <1>2 DEF AccountsAssumption, AccountsInv, RequestSound
<1> QED BY <1>4, <1>5, <1>6, <1>7 DEF AccountsInv

\* A request gets its token.
LEMMA SignStep ==
  ASSUME AccountsAssumption, AccountsInv, NEW q \in Requests, Sign(q)
  PROVE  AccountsInv'
<1> DEFINE named == IF q \in Registrations THEN {q} ELSE found[q]
<1>1. /\ named \subseteq accounts
      /\ \A a \in named : email[a] = email[q] /\ password[a] = password[q]
  BY DEF Sign, AccountsInv, TypeOK, RequestSound, Requests
<1>2. /\ at[q] = "sign" /\ token' = [token EXCEPT ![q] = named] /\ Goto(q, "done")
      /\ answer' = [answer EXCEPT ![q] = "ok"]
      /\ UNCHANGED <<email, password, accounts, lastLogin, found, seen, now, faults>>
  BY DEF Sign, Answer
<1> HIDE DEF named
<1>3. /\ at' \in [Requests -> Steps] /\ at'[q] = "done"
      /\ token' \in [Requests -> SUBSET Registrations] /\ token'[q] = named
      /\ answer' \in [Requests -> Answers]
      /\ \A r \in Requests : r # q => at'[r] = at[r] /\ token'[r] = token[r]
  BY <1>1, <1>2 DEF AccountsInv, TypeOK, Goto, Steps, Answers
<1>4. TypeOK'
  BY <1>2, <1>3 DEF AccountsInv, TypeOK, Requests
<1>5. TokensEarned'
  BY <1>1, <1>2, <1>3 DEF AccountsInv, TokensEarned
<1>6. OneAccountPerAddress' /\ LastLoginEarned'
  BY <1>2 DEF AccountsInv, OneAccountPerAddress, LastLoginEarned
<1>7. \A r \in Requests : RequestSound(r)'
  BY <1>2, <1>3 DEF AccountsAssumption, AccountsInv, RequestSound
<1> QED BY <1>4, <1>5, <1>6, <1>7 DEF AccountsInv

\* The clock.
LEMMA TickStep ==
  ASSUME AccountsAssumption, AccountsInv, Tick
  PROVE  AccountsInv'
<1>1. TypeOK'
  BY DEF AccountsAssumption, AccountsInv, TypeOK, Tick
<1>2. OneAccountPerAddress' /\ TokensEarned' /\ LastLoginEarned'
  BY DEF AccountsInv, OneAccountPerAddress, TokensEarned, LastLoginEarned, Tick
<1>3. \A r \in Requests : RequestSound(r)'
  BY DEF AccountsInv, RequestSound, Tick
<1> QED BY <1>1, <1>2, <1>3 DEF AccountsInv

-----------------------------------------------------------------------------
LEMMA AccountsStep == AccountsAssumption /\ AccountsInv /\ [Next]_vars => AccountsInv'
<1> SUFFICES ASSUME AccountsAssumption, AccountsInv, [Next]_vars
             PROVE  AccountsInv'
  OBVIOUS
<1>f. ASSUME Fault PROVE faults' \in 0..MaxFaults
  BY <1>f DEF Fault, AccountsInv, TypeOK, AccountsAssumption
<1>a. ASSUME NEW q \in Requests, NEW a \in Answers, Answer(q, a)
      PROVE  answer' \in [Requests -> Answers] /\ Goto(q, "done") /\ "done" \in Steps
  BY <1>a DEF Answer, AccountsInv, TypeOK, Steps
<1>t. /\ answer \in [Requests -> Answers] /\ faults \in 0..MaxFaults
      /\ {"lookup", "create", "sign", "done"} \subseteq Steps
      /\ {"taken", "denied", "error"} \subseteq Answers
  BY DEF AccountsInv, TypeOK, Steps, Answers
<1>1. ASSUME NEW q \in Requests, Arrive(q) PROVE AccountsInv'
  BY <1>1, <1>t, QuietStep DEF Arrive
<1>2. ASSUME NEW q \in Requests, LookUpAddress(q) PROVE AccountsInv'
  <2>1. CASE Answer(q, "taken") \/ Answer(q, "error")
    BY <1>2, <2>1, <1>a, <1>t, QuietStep DEF LookUpAddress
  <2>2. CASE Goto(q, "create") /\ UNCHANGED answer
    BY <1>2, <2>2, <1>t, QuietStep DEF LookUpAddress
  <2> QED BY <1>2, <2>1, <2>2 DEF LookUpAddress
<1>3. ASSUME NEW q \in Requests, LookUpAddressFails(q) PROVE AccountsInv'
  <2>1. CASE Answer(q, "error")
    BY <1>3, <2>1, <1>a, <1>f, <1>t, QuietStep DEF LookUpAddressFails
  <2>2. CASE Goto(q, "create") /\ UNCHANGED answer
    BY <1>3, <2>2, <1>f, <1>t, QuietStep DEF LookUpAddressFails
  <2> QED BY <1>3, <2>1, <2>2 DEF LookUpAddressFails
<1>4. ASSUME NEW q \in Requests, Create(q) PROVE AccountsInv'
  <2>1. CASE Inserts(q)
    BY <1>4, <2>1, <1>t, InsertStep DEF Create
  <2>2. CASE ~Inserts(q)
    BY <1>4, <2>2, <1>a, <1>t, QuietStep DEF Create
  <2> QED BY <2>1, <2>2
<1>5. ASSUME NEW q \in Requests, CreateFails(q) PROVE AccountsInv'
  <2>1. /\ faults' \in 0..MaxFaults /\ q \in Registrations
        /\ answer' \in [Requests -> Answers] /\ Goto(q, "done") /\ "done" \in Steps
        /\ UNCHANGED <<email, password, lastLogin, found, token, seen, now>>
    BY <1>5, <1>a, <1>f, <1>t DEF CreateFails
  <2>2. CASE Inserts(q) /\ accounts' = accounts \cup {q}
    BY <2>1, <2>2, InsertStep
  <2>3. CASE UNCHANGED accounts
    BY <2>1, <2>3, QuietStep
  <2> QED BY <1>5, <2>2, <2>3 DEF CreateFails
<1>6. ASSUME NEW q \in Requests, FindUser(q) PROVE AccountsInv'
  <2>1. CASE Goto(q, "touch")
    BY <1>6, <2>1, FoundStep
  <2>2. CASE ~Goto(q, "touch")
    <3>1. /\ Answer(q, "denied")
          /\ {a \in FindByEmail(email[q]) : password[a] = password[q]} = {}
      BY <1>6, <2>2 DEF FindUser
    <3>2. at[q] = "lookup" /\ found[q] = {}
      BY <1>6 DEF FindUser, AccountsInv, RequestSound
    <3>3. found' = found /\ UNCHANGED seen
      BY <1>6, <2>2, <3>1, <3>2 DEF FindUser, AccountsInv, TypeOK
    <3> QED BY <1>6, <3>1, <3>3, <1>a, <1>t, QuietStep DEF FindUser
  <2> QED BY <2>1, <2>2
<1>7. ASSUME NEW q \in Requests, FindUserFails(q) PROVE AccountsInv'
  BY <1>7, <1>a, <1>f, <1>t, QuietStep DEF FindUserFails
<1>8. ASSUME NEW q \in Requests, UpdateLastLogin(q) PROVE AccountsInv'
  BY <1>8, TouchStep
<1>9. ASSUME NEW q \in Requests, UpdateLastLoginFails(q) PROVE AccountsInv'
  BY <1>9, <1>f, <1>t, QuietStep DEF UpdateLastLoginFails
<1>10. ASSUME NEW q \in Requests, Sign(q) PROVE AccountsInv'
  BY <1>10, SignStep
<1>11. ASSUME NEW q \in Requests, Abandon(q) PROVE AccountsInv'
  BY <1>11, <1>f, <1>t, QuietStep DEF Abandon
<1>12. CASE Tick
  BY <1>12, TickStep
<1>13. CASE UNCHANGED vars
  BY <1>13 DEF vars, AccountsInv, TypeOK, OneAccountPerAddress, TokensEarned,
     LastLoginEarned, RequestSound
<1> QED
  BY <1>1, <1>2, <1>3, <1>4, <1>5, <1>6, <1>7, <1>8, <1>9, <1>10, <1>11, <1>12, <1>13
     DEF Next, Register, Login, Disturbed
-----------------------------------------------------------------------------
LEMMA AccountsInvariance == Spec => []AccountsInv
<1>1. Init => AccountsInv
  BY AccountsAssumption, AccountsInit
<1>2. AccountsInv /\ [Next]_vars => AccountsInv'
  BY AccountsAssumption, AccountsStep
<1> QED BY <1>1, <1>2, PTL DEF Spec

\* TypeOK holds whatever the requests are.
THEOREM AccountTypes == Spec => []TypeOK
<1>1. AccountsInv => TypeOK
  BY DEF AccountsInv
<1> QED BY <1>1, AccountsInvariance, PTL

\* However many registrations race for an address, and whatever fails, it has one
\* account at most: the unique key decides, not the lookup before it.
THEOREM AddressesHaveOneAccount == Spec => []OneAccountPerAddress
<1>1. AccountsInv => OneAccountPerAddress
  BY DEF AccountsInv
<1> QED BY <1>1, AccountsInvariance, PTL

\* A token names an account whose address and password its request had.
THEOREM TokensAreEarned == Spec => []TokensEarned
<1>1. AccountsInv => TokensEarned
  BY DEF AccountsInv
<1> QED BY <1>1, AccountsInvariance, PTL

\* The time of the last login is that of a login with the right password.
THEOREM LoginTimesAreEarned == Spec => []LastLoginEarned
<1>1. AccountsInv => LastLoginEarned
  BY DEF AccountsInv
<1> QED BY <1>1, AccountsInvariance, PTL

\* Tokens and login times are due to the right password.
THEOREM CredentialsAreEarned == Spec => []CredentialsEarned
<1> QED BY TokensAreEarned, LoginTimesAreEarned, PTL DEF CredentialsEarned
=============================================================================
