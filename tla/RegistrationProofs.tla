------------------------- MODULE RegistrationProofs -------------------------
(***************************************************************************)
(* Proofs about Registration, for every number of threads and requests and *)
(* all usernames, emails and passwords, whatever the database makes of     *)
(* their literals and however it collates them.                            *)
(***************************************************************************)
EXTENDS Registration, TLAPS

Accounts == [row : Row, typed : Users, saw : Counts]
Registers == [command : {"REGISTER_USER"}, user : Users]
SignsIn == [command : {"LOGIN_USER"}, login : Logins]

NotThere(column, text, n) == \A i \in 1..n : accounts[i].row[column] # text

(* What a thread has learnt of the table, which only grows: how much of it *)
(* was there, which texts were not in the part it looked at, and that the  *)
(* user whose password it looks for was.                                   *)
Knows(h) ==
  /\ began[h] <= Len(accounts)
  /\ \A column \in Columns : seen[h][column] <= Len(accounts)
  /\ pc[h] \in Fetches => began[h] <= seen[h][Column(h)]
  /\ pc[h] \in {"findUsername", "gotUsername", "findEmail", "gotEmail", "insert"}
       => request[h] \in Registers
  /\ pc[h] \in {"findUser", "gotUser", "findPassword", "gotPassword"} => request[h] \in SignsIn
  /\ pc[h] \in {"findEmail", "gotEmail", "insert"}
       => NotThere("username", request[h].user.username, seen[h]["username"])
  /\ pc[h] = "insert" => NotThere("email", request[h].user.email, seen[h]["email"])
  /\ pc[h] \in {"findPassword", "gotPassword"} /\ Plain(request[h].login.text)
       => HasText(h) # {}

(* OwnersSignIn of one thread.                                             *)
Refused(h) ==
  /\ pc[h] = "reply" /\ request[h].command = "LOGIN_USER" /\ answer[h] \in {"missing", "bad"}
  /\ Plain(request[h].login.text) /\ Plain(request[h].login.password)
  => \A i \in 1..began[h] :
       Owns(i, request[h].login) =>
         \E j \in 1..Len(accounts) \ {i} : Named(j, request[h].login.text)

(* Every row is what the literals of its user make.                        *)
RowsWritten == \A i \in 1..Len(accounts) : accounts[i].row = Written(accounts[i].typed)

Inductive ==
  /\ TypeOK /\ RowsWritten /\ SharedOnlyInRace
  /\ \A h \in Handlers : Knows(h) /\ Refused(h)

(* A row's column is the literal of what was typed for it.                 *)
LEMMA WrittenFacts ==
  ASSUME NEW user \in Users, Written(user) \in Row
  PROVE  /\ \A column \in Columns : Written(user)[column] = Literal[user[column]]
         /\ Written(user).password = Literal[user.password]
  BY DEF Written, Columns

(* Both conversions give a column.                                         *)
LEMMA ColumnsAre ==
  /\ Columns = {"username", "email"}
  /\ \A h : Column(h) \in Columns
  /\ \A text : TypeOfData(text) \in Columns
  BY DEF Columns, Column, TypeOfData

(* The table after an insertion.                                           *)
LEMMA AppendFacts ==
  ASSUME NEW S, NEW s \in Seq(S), NEW e \in S
  PROVE  /\ Append(s, e) \in Seq(S)
         /\ Len(s) \in Nat /\ Len(Append(s, e)) = Len(s) + 1
         /\ Append(s, e)[Len(s) + 1] = e
         /\ \A i \in 1..Len(s) : Append(s, e)[i] = s[i]
  OBVIOUS

(* The elements of the table.                                              *)
LEMMA ElementFacts ==
  ASSUME NEW S, NEW s \in Seq(S)
  PROVE  Len(s) \in Nat /\ \A i \in 1..Len(s) : s[i] \in S
  OBVIOUS

(* A thread whose own state stays knows what it knew when the table stays  *)
(* or grows.                                                               *)
LEMMA OthersKnow ==
  ASSUME TypeOK, NEW g \in Handlers, Knows(g), Refused(g),
         UNCHANGED <<pc[g], request[g], began[g], seen[g], answer[g]>>,
         Len(accounts) \in Nat, Len(accounts') \in Nat, Len(accounts) <= Len(accounts'),
         \A i \in 1..Len(accounts) : accounts'[i] = accounts[i]
  PROVE  Knows(g)' /\ Refused(g)'
<1>1. Column(g)' = Column(g) /\ Column(g) \in Columns
  BY ColumnsAre DEF Column, TypeOfData
<1>2. \A i \in 1..Len(accounts) : i \in 1..Len(accounts')
  OBVIOUS
<1>3. began[g] \in Nat /\ \A column \in Columns : seen[g][column] \in Nat
  BY DEF TypeOK, Counts
<1>4. \A column \in Columns : \A i \in 1..seen[g][column] : i \in 1..Len(accounts)
  BY <1>3 DEF Knows
<1>5. \A i \in 1..began[g] : i \in 1..Len(accounts)
  BY <1>3 DEF Knows
<1>6. \A column \in Columns : \A text :
        NotThere(column, text, seen[g][column]) => NotThere(column, text, seen[g][column])'
  BY <1>4 DEF NotThere
<1>7. HasText(g)' = HasText(g)
  BY <1>1, <1>4 DEF HasText, Same
<1>8. began'[g] <= Len(accounts') /\ \A column \in Columns : seen'[g][column] <= Len(accounts')
  BY <1>3 DEF Knows
<1>9. Knows(g)'
  BY <1>1, <1>6, <1>7, <1>8, ColumnsAre DEF Knows, Plain
<1>10. \A i \in 1..Len(accounts) : /\ \A text : Named(i, text)' <=> Named(i, text)
                                   /\ \A login : Owns(i, login)' <=> Owns(i, login)
  BY DEF Named, Owns, TypeOfData, Same
<1>11. Refused(g)'
  BY <1>2, <1>5, <1>10 DEF Refused, Plain
<1> QED
  BY <1>9, <1>11

(* The same when the table stays.                                          *)
LEMMA OthersKnowStill ==
  ASSUME TypeOK, NEW g \in Handlers, Knows(g), Refused(g),
         UNCHANGED <<accounts, pc[g], request[g], began[g], seen[g], answer[g]>>
  PROVE  Knows(g)' /\ Refused(g)'
<1>1. Len(accounts) \in Nat
  BY ElementFacts DEF TypeOK
<1> QED
  BY <1>1, OthersKnow

(* Everything is empty at first.                                           *)
LEMMA InductiveInit == Init => Inductive
<1> SUFFICES ASSUME Init PROVE Inductive
  OBVIOUS
<1>1. Len(accounts) = 0 /\ accounts \in Seq(Accounts)
  BY DEF Init
<1>2. NoneSeen \in Counts
  BY DEF NoneSeen, Counts
<1>3. TypeOK
  <2>1. accounts \in Seq([row : Row, typed : Users, saw : Counts])
    BY DEF Init
  <2>2. down \in BOOLEAN
    BY DEF Init
  <2> QED
    BY <1>2, <2>1, <2>2, RegistrationAssumption DEF Init, TypeOK
<1>4. SharedOnlyInRace
  BY <1>1 DEF SharedOnlyInRace
<1>6. RowsWritten
  BY <1>1 DEF RowsWritten
<1>5. ASSUME NEW h \in Handlers PROVE Knows(h) /\ Refused(h)
  BY <1>1 DEF Init, Knows, Refused, NoneSeen, Fetches
<1> QED
  BY <1>3, <1>4, <1>5, <1>6 DEF Inductive

(* The same of the rows of the table.                                      *)
LEMMA RowFacts ==
  ASSUME Inductive, NEW i \in 1..Len(accounts)
  PROVE  /\ \A column \in Columns : accounts[i].row[column] = Literal[accounts[i].typed[column]]
         /\ accounts[i].row.password = Literal[accounts[i].typed.password]
<1>1. accounts[i] \in Accounts /\ accounts[i].row = Written(accounts[i].typed)
  BY ElementFacts DEF Inductive, TypeOK, Accounts, RowsWritten
<1> QED
  BY <1>1, WrittenFacts DEF Accounts

(* Types need of the rest only that who inserts was asked to register.     *)
LEMMA TypeStep == Inductive /\ [Next]_vars => TypeOK'
<1> SUFFICES ASSUME Inductive, [Next]_vars PROVE TypeOK'
  OBVIOUS
<1> USE DEF handlerVars
<1>c. TypeOK
  BY DEF Inductive
<1>a. Len(accounts) \in Nat /\ NoneSeen \in Counts
  BY <1>c, ElementFacts DEF TypeOK, NoneSeen, Counts
<1>d. down' \in BOOLEAN
  BY <1>c DEF TypeOK, Next, Password, vars
<1>b. ASSUME NEW h \in Handlers, NEW what \in {"OK", "exists", "missing", "bad", "failed"},
             Answer(h, what)
      PROVE  /\ answer' \in [Handlers -> {"none", "OK", "exists", "missing", "bad", "failed"}]
             /\ pc' \in [Handlers -> {"receive", "insert", "reply"} \cup Selects \cup Fetches]
  BY <1>c, <1>b DEF TypeOK, Answer, Goto
<1>1. ASSUME NEW h \in Handlers, Receive(h) PROVE TypeOK'
  <2>1. request' \in [Handlers -> Requests \cup {None}]
    BY <1>c, <1>1 DEF TypeOK, Receive
  <2>2. pc' \in [Handlers -> {"receive", "insert", "reply"} \cup Selects \cup Fetches]
    BY <1>c, <1>1 DEF TypeOK, Receive, Goto, Selects
  <2>3. began' \in [Handlers -> Nat]
    BY <1>c, <1>1, <1>a DEF TypeOK, Receive
  <2>4. handled' \in [Handlers -> 0..MaxRequests]
    BY <1>c, <1>1, RegistrationAssumption DEF TypeOK, Receive
  <2> QED
    BY <1>c, <1>1, <2>1, <2>2, <2>3, <2>4, <1>d DEF TypeOK, Receive
<1>2. ASSUME NEW h \in Handlers, Fail(h) PROVE TypeOK'
  BY <1>c, <1>2, <1>b, <1>d DEF TypeOK, Fail
<1>3. ASSUME NEW h \in Handlers, Select(h) PROVE TypeOK'
  <2>1. [seen[h] EXCEPT ![Column(h)] = Len(accounts)] \in Counts
    BY <1>c, <1>a, <1>3, ColumnsAre DEF TypeOK, Counts
  <2>2. seen' = [seen EXCEPT ![h] = [seen[h] EXCEPT ![Column(h)] = Len(accounts)]]
    BY <1>c, <1>3 DEF Select, TypeOK
  <2>3. seen' \in [Handlers -> Counts]
    BY <1>c, <2>1, <2>2 DEF TypeOK
  <2>4. pc' \in [Handlers -> {"receive", "insert", "reply"} \cup Selects \cup Fetches]
    BY <1>c, <1>3 DEF TypeOK, Select, Goto, Selects, Fetches, Fetch
  <2> QED
    BY <1>c, <1>3, <2>3, <2>4, <1>d DEF TypeOK, Select
<1>4. ASSUME NEW h \in Handlers, Existence(h) PROVE TypeOK'
  <2>1. /\ answer' \in [Handlers -> {"none", "OK", "exists", "missing", "bad", "failed"}]
        /\ pc' \in [Handlers -> {"receive", "insert", "reply"} \cup Selects \cup Fetches]
    BY <1>c, <1>4, <1>b DEF TypeOK, Existence, Goto, Selects
  <2> QED
    BY <1>c, <1>4, <2>1, <1>d DEF TypeOK, Existence
<1>5. ASSUME NEW h \in Handlers, Password(h) PROVE TypeOK'
  <2>1. /\ answer' \in [Handlers -> {"none", "OK", "exists", "missing", "bad", "failed"}]
        /\ pc' \in [Handlers -> {"receive", "insert", "reply"} \cup Selects \cup Fetches]
    BY <1>c, <1>5, <1>b DEF TypeOK, Password
  <2> QED
    BY <1>c, <1>5, <1>d, <2>1 DEF TypeOK, Password
<1>6. ASSUME NEW h \in Handlers, Insert(h) PROVE TypeOK'
  <2>1. request[h].user \in Users /\ seen[h] \in Counts /\ Written(request[h].user) \in Row
    BY <1>6, <1>c DEF Inductive, Knows, Registers, Insert, TypeOK
  <2>2. accounts' \in Seq(Accounts)
    BY <1>6, <1>c, <2>1 DEF TypeOK, Insert, Accounts
  <2> QED
    BY <1>6, <1>b, <1>c, <1>d, <2>2 DEF TypeOK, Insert, Accounts
<1>7. ASSUME NEW h \in Handlers, Reply(h) PROVE TypeOK'
  BY <1>c, <1>7, <1>a, <1>d DEF TypeOK, Reply, Goto
<1>8. CASE UNCHANGED vars
  BY <1>c, <1>8 DEF TypeOK, vars
<1> QED
  BY <1>1, <1>2, <1>3, <1>4, <1>5, <1>6, <1>7, <1>8 DEF Next

(* The step of a thread leaves the others' state alone, and the table only *)
(* grows.                                                                  *)
LEMMA OthersStep ==
  ASSUME Inductive, NEW h \in Handlers, NEW g \in Handlers \ {h},
         \/ Receive(h) \/ Fail(h) \/ Select(h) \/ Existence(h) \/ Password(h)
         \/ Insert(h) \/ Reply(h)
  PROVE  Knows(g)' /\ Refused(g)'
<1>1. TypeOK /\ Knows(g) /\ Refused(g)
  BY DEF Inductive
<1>2. pc'[g] = pc[g]
  BY <1>1 DEF TypeOK, Receive, Fail, Select, Existence, Password, Insert, Reply, Goto, Answer
<1>3. answer'[g] = answer[g]
  BY <1>1 DEF TypeOK, Receive, Fail, Select, Existence, Password, Insert, Reply, Answer
<1>4. UNCHANGED <<request[g], began[g], seen[g]>>
  BY <1>1 DEF TypeOK, Receive, Fail, Select, Existence, Password, Insert, Reply, handlerVars
<1>5. CASE UNCHANGED accounts
  BY <1>1, <1>2, <1>3, <1>4, <1>5, OthersKnowStill
<1>6. CASE Insert(h)
  <2>1. request[h].user \in Users /\ seen[h] \in Counts /\ Written(request[h].user) \in Row
    BY <1>1, <1>6 DEF Inductive, Knows, Registers, Insert, TypeOK
  <2>2. PICK account \in Accounts : accounts' = Append(accounts, account)
    BY <1>6, <2>1 DEF Insert, Accounts
  <2>3. accounts \in Seq(Accounts)
    BY <1>1 DEF TypeOK, Accounts
  <2>4. /\ Len(accounts) \in Nat /\ Len(accounts') = Len(accounts) + 1
        /\ \A i \in 1..Len(accounts) : accounts'[i] = accounts[i]
    BY <2>2, <2>3, AppendFacts
  <2> QED
    BY <1>1, <1>2, <1>3, <1>4, <2>4, OthersKnow
<1> QED
  BY <1>5, <1>6 DEF Receive, Fail, Select, Existence, Password, Reply

(* A request begins with what is in the table then.                        *)
LEMMA ReceiveStep ==
  ASSUME Inductive, NEW h \in Handlers, Receive(h)
  PROVE  Knows(h)' /\ Refused(h)'
<1>1. TypeOK /\ Knows(h) /\ Len(accounts) \in Nat
  BY ElementFacts DEF Inductive, TypeOK
<1>2. PICK r \in Requests :
        /\ request' = [request EXCEPT ![h] = r]
        /\ pc' = [pc EXCEPT ![h] = IF r.command = "REGISTER_USER" THEN "findUsername" ELSE "findUser"]
  BY DEF Receive, Goto
<1>3. request'[h] = r /\ began'[h] = Len(accounts) /\ UNCHANGED <<accounts, seen>>
  BY <1>1, <1>2 DEF TypeOK, Receive
<1>4. pc'[h] = IF r.command = "REGISTER_USER" THEN "findUsername" ELSE "findUser"
  BY <1>1, <1>2 DEF TypeOK
<1>5. IF r.command = "REGISTER_USER" THEN r \in Registers ELSE r \in SignsIn
  BY DEF Requests, Registers, SignsIn
<1>6. Knows(h)'
  BY <1>1, <1>3, <1>4, <1>5 DEF Knows, Fetches
<1>7. Refused(h)'
  BY <1>4 DEF Refused
<1> QED
  BY <1>6, <1>7

(* A query that fails refuses nobody's name.                               *)
LEMMA FailStep ==
  ASSUME Inductive, NEW h \in Handlers, Fail(h)
  PROVE  Knows(h)' /\ Refused(h)'
<1>1. TypeOK /\ Knows(h)
  BY DEF Inductive
<1>2. /\ pc'[h] = "reply" /\ answer'[h] = "failed"
      /\ UNCHANGED <<accounts, seen, request, began>>
  BY <1>1 DEF TypeOK, Fail, Answer, Goto, handlerVars
<1> QED
  BY <1>1, <1>2 DEF Knows, Refused, Fetches

(* A query sees all that is in the table, which the request found there.   *)
LEMMA SelectStep ==
  ASSUME Inductive, NEW h \in Handlers, Select(h)
  PROVE  Knows(h)' /\ Refused(h)'
<1>1. TypeOK /\ Knows(h) /\ Len(accounts) \in Nat
  BY ElementFacts DEF Inductive, TypeOK
<1>2. /\ UNCHANGED <<accounts, request, began>>
      /\ pc[h] \in Selects /\ pc'[h] = Fetch[pc[h]]
      /\ seen' = [seen EXCEPT ![h] = [seen[h] EXCEPT ![Column(h)] = Len(accounts)]]
  BY <1>1 DEF TypeOK, Select, Goto, handlerVars
<1>3. /\ pc[h] = "findUsername" => pc'[h] = "gotUsername"
      /\ pc[h] = "findEmail" => pc'[h] = "gotEmail"
      /\ pc[h] = "findUser" => pc'[h] = "gotUser"
      /\ pc[h] = "findPassword" => pc'[h] = "gotPassword"
  BY <1>2 DEF Fetch
<1>4. pc[h] \in {"findUsername", "findEmail", "findUser", "findPassword"}
  BY <1>2 DEF Selects
<1>5. Column(h)' = Column(h) /\ Column(h) \in Columns
  BY <1>2, <1>3, <1>4, ColumnsAre DEF Column, TypeOfData
<1>6. /\ seen'[h][Column(h)] = Len(accounts)
      /\ \A column \in Columns : seen'[h][column] \in {seen[h][column], Len(accounts)}
      /\ \A column \in Columns \ {Column(h)} : seen'[h][column] = seen[h][column]
      /\ \A column \in Columns : seen[h][column] \in Nat
  BY <1>1, <1>2, <1>5 DEF TypeOK, Counts
<1>7. pc'[h] = "gotEmail" => NotThere("username", request[h].user.username, seen[h]["username"])'
  <2>1. pc'[h] = "gotEmail" => pc[h] = "findEmail"
    BY <1>3, <1>4
  <2>2. pc[h] = "findEmail" => Column(h) = "email"
    BY DEF Column
  <2>3. pc[h] = "findEmail" => seen'[h]["username"] = seen[h]["username"]
    BY <1>6, <2>2, ColumnsAre
  <2> QED
    BY <1>1, <1>2, <2>1, <2>3 DEF Knows, NotThere
<1>8. pc'[h] = "gotPassword" /\ Plain(request[h].login.text) => HasText(h)' # {}
  <2>1. pc'[h] = "gotPassword" => pc[h] = "findPassword"
    BY <1>3, <1>4
  <2>2. \A i \in 1..seen[h][Column(h)] : i \in 1..Len(accounts)
    BY <1>1, <1>5, <1>6 DEF Knows
  <2>3. HasText(h) \subseteq HasText(h)'
    BY <1>2, <1>5, <1>6, <2>2 DEF HasText, Same
  <2> QED
    BY <1>1, <2>1, <2>3 DEF Knows
<1>9. began'[h] <= seen'[h][Column(h)'] /\ \A column \in Columns : seen'[h][column] <= Len(accounts')
  BY <1>1, <1>2, <1>5, <1>6 DEF Knows
<1>10. pc'[h] \notin {"findEmail", "insert", "findPassword", "reply"}
  BY <1>3, <1>4
<1>11. /\ pc'[h] \in {"gotUsername", "gotEmail"} => request[h] \in Registers
       /\ pc'[h] \in {"gotUser", "gotPassword"} => request[h] \in SignsIn
       /\ pc'[h] \notin {"findUsername", "findUser"}
  BY <1>1, <1>3, <1>4 DEF Knows
<1>12. Knows(h)'
  BY <1>1, <1>2, <1>7, <1>8, <1>9, <1>10, <1>11 DEF Knows, Plain
<1> QED
  BY <1>10, <1>12 DEF Refused

(* What a result says of the part of the table that was looked at.         *)
LEMMA ExistenceStep ==
  ASSUME Inductive, NEW h \in Handlers, Existence(h)
  PROVE  Knows(h)' /\ Refused(h)'
<1>1. TypeOK /\ Knows(h) /\ Len(accounts) \in Nat
  BY ElementFacts DEF Inductive, TypeOK
<1>2. UNCHANGED <<accounts, request, began, seen>>
  BY DEF Existence, handlerVars
<1>3. pc[h] \in {"gotUsername", "gotEmail", "gotUser"}
  BY DEF Existence, Fetches
<1>4. CASE pc[h] = "gotUsername" /\ Rows(h, request[h].user.username) = {}
  <2>1. pc'[h] = "findEmail"
    BY <1>1, <1>4 DEF Existence, Goto, TypeOK
  <2>2. NotThere("username", request[h].user.username, seen[h]["username"])
    BY <1>4 DEF NotThere, Rows, Column
  <2>3. NotThere("username", request[h].user.username, seen[h]["username"])'
    BY <1>2, <2>2 DEF NotThere
  <2> QED
    BY <1>1, <1>2, <1>4, <2>1, <2>3 DEF Knows, Refused, Fetches
<1>5. CASE pc[h] = "gotEmail" /\ Rows(h, request[h].user.email) = {}
  <2>1. pc'[h] = "insert"
    BY <1>1, <1>5 DEF Existence, Goto, TypeOK
  <2>2. /\ NotThere("username", request[h].user.username, seen[h]["username"])
        /\ NotThere("email", request[h].user.email, seen[h]["email"])
    BY <1>1, <1>5 DEF Knows, NotThere, Rows, Column
  <2>3. /\ NotThere("username", request[h].user.username, seen[h]["username"])'
        /\ NotThere("email", request[h].user.email, seen[h]["email"])'
    BY <1>2, <2>2 DEF NotThere
  <2> QED
    BY <1>1, <1>2, <1>5, <2>1, <2>3 DEF Knows, Refused, Fetches
<1>6. CASE pc[h] = "gotUser" /\ Rows(h, request[h].login.text) # {}
  <2>1. pc'[h] = "findPassword"
    BY <1>1, <1>6 DEF Existence, Goto, TypeOK
  <2>2. Column(h)' = Column(h)
    BY <1>2, <1>6, <2>1 DEF Column, TypeOfData
  <2>3. Plain(request[h].login.text) => Rows(h, request[h].login.text) \subseteq HasText(h)
    BY DEF HasText, Rows, Same, Plain
  <2>4. Plain(request[h].login.text) => HasText(h)' # {}
    BY <1>2, <1>6, <2>2, <2>3 DEF HasText, Same
  <2> QED
    BY <1>1, <1>2, <1>6, <2>1, <2>4 DEF Knows, Refused, Fetches, Plain
<1>7. CASE /\ ~(pc[h] = "gotUsername" /\ Rows(h, request[h].user.username) = {})
           /\ ~(pc[h] = "gotEmail" /\ Rows(h, request[h].user.email) = {})
           /\ ~(pc[h] = "gotUser" /\ Rows(h, request[h].login.text) # {})
  <2>1. /\ pc'[h] = "reply"
        /\ answer'[h] = IF pc[h] = "gotUser" THEN "missing" ELSE "exists"
    BY <1>1, <1>3, <1>7 DEF Existence, Answer, Goto, TypeOK
  <2>2. Knows(h)'
    BY <1>1, <1>2, <2>1 DEF Knows, Fetches
  <2>3. ASSUME pc[h] = "gotUser", Plain(request[h].login.text)
        PROVE  \A i \in 1..began[h] : ~Owns(i, request[h].login)
    <3>1. Column(h) = TypeOfData(request[h].login.text) /\ Column(h) \in Columns
      BY <2>3, ColumnsAre DEF Column
    <3>2. \A i \in 1..began[h] : i \in 1..seen[h][Column(h)] /\ i \in 1..Len(accounts)
      BY <1>1, <2>3, <3>1 DEF Knows, Fetches, TypeOK, Counts
    <3>3. Rows(h, request[h].login.text) = {}
      BY <1>7, <2>3
    <3>4. \A i \in 1..began[h] : accounts[i].row[Column(h)] = Literal[accounts[i].typed[Column(h)]]
      BY <3>1, <3>2, RowFacts
    <3> QED
      BY <2>3, <3>1, <3>2, <3>3, <3>4 DEF Rows, Owns, Plain
  <2>4. Refused(h)'
    BY <1>2, <2>1, <2>3 DEF Refused, Owns, TypeOfData, Plain
  <2> QED
    BY <2>2, <2>4
<1> QED
  BY <1>3, <1>4, <1>5, <1>6, <1>7

(* The row that the database returns is not the asker's account when its  *)
(* password differs.                                                       *)
LEMMA PasswordStep ==
  ASSUME Inductive, NEW h \in Handlers, Password(h)
  PROVE  Knows(h)' /\ Refused(h)'
<1>1. TypeOK /\ Knows(h) /\ pc[h] = "gotPassword" /\ Len(accounts) \in Nat
  BY ElementFacts DEF Inductive, Password, TypeOK
<1>2. UNCHANGED <<accounts, request, began, seen>>
  BY DEF Password, handlerVars
<1>3. Column(h) = TypeOfData(request[h].login.text) /\ Column(h) \in Columns
  BY <1>1, ColumnsAre DEF Column
<1>4. ASSUME NEW k \in HasText(h),
             Answer(h, IF accounts[k].row.password = request[h].login.password THEN "OK" ELSE "bad")
      PROVE  Knows(h)' /\ Refused(h)'
  <2>1. /\ pc'[h] = "reply"
        /\ answer'[h] = IF accounts[k].row.password = request[h].login.password THEN "OK" ELSE "bad"
    BY <1>1, <1>4 DEF Answer, Goto, TypeOK
  <2>2. k \in 1..seen[h][Column(h)] /\ k \in 1..Len(accounts)
    BY <1>1, <1>3, <1>4 DEF HasText, Knows, TypeOK, Counts
  <2>3. Plain(request[h].login.text) => Named(k, request[h].login.text)
    BY <1>3, <1>4 DEF HasText, Plain, Named
  <2>4. Knows(h)'
    BY <1>1, <1>2, <2>1 DEF Knows, Fetches
  <2>5. ASSUME answer'[h] \in {"missing", "bad"}, Plain(request[h].login.password)
        PROVE  ~Owns(k, request[h].login)
    <3>1. accounts[k].row.password # request[h].login.password
      BY <2>1, <2>5
    <3>2. accounts[k].row.password = Literal[accounts[k].typed.password]
      BY <2>2, RowFacts
    <3> QED
      BY <2>5, <3>1, <3>2 DEF Owns, Plain
  <2>6. \A i : /\ Named(i, request[h].login.text)' <=> Named(i, request[h].login.text)
               /\ Owns(i, request[h].login)' <=> Owns(i, request[h].login)
    BY <1>2 DEF Named, Owns, TypeOfData, Same
  <2>7. Refused(h)'
    BY <1>2, <2>2, <2>3, <2>5, <2>6 DEF Refused, Plain
  <2> QED
    BY <2>4, <2>7
<1>5. CASE HasText(h) = {} /\ UNCHANGED <<pc, answer>>
  BY <1>1, <1>2, <1>5, OthersKnowStill DEF Inductive
<1> QED
  BY <1>4, <1>5 DEF Password

(* A user that is inserted, or an answer that is sent, leaves nothing to   *)
(* know.                                                                   *)
LEMMA LastSteps ==
  ASSUME Inductive, NEW h \in Handlers, Insert(h) \/ Reply(h)
  PROVE  Knows(h)' /\ Refused(h)'
<1>1. TypeOK /\ Knows(h) /\ accounts \in Seq(Accounts) /\ Len(accounts) \in Nat
  BY ElementFacts DEF Inductive, TypeOK, Accounts
<1>2. CASE Insert(h)
  <2>1. request[h].user \in Users /\ seen[h] \in Counts /\ Written(request[h].user) \in Row
    BY <1>1, <1>2 DEF Knows, Registers, Insert, TypeOK
  <2>2. PICK account \in Accounts : accounts' = Append(accounts, account)
    BY <1>2, <2>1 DEF Insert, Accounts
  <2>3. Len(accounts') = Len(accounts) + 1
    BY <1>1, <2>2, AppendFacts
  <2>4. /\ pc'[h] = "reply" /\ answer'[h] = "OK" /\ UNCHANGED <<seen, began>>
    BY <1>1, <1>2 DEF TypeOK, Insert, Answer, Goto, handlerVars
  <2>5. began[h] <= Len(accounts') /\ \A column \in Columns : seen[h][column] <= Len(accounts')
    BY <1>1, <2>3 DEF Knows, TypeOK, Counts
  <2> QED
    BY <2>4, <2>5 DEF Knows, Refused, Fetches
<1>3. CASE Reply(h)
  <2>1. /\ pc'[h] = "receive" /\ began'[h] = 0 /\ seen'[h] = NoneSeen /\ UNCHANGED accounts
    BY <1>1, <1>3 DEF TypeOK, Reply, Goto
  <2> QED
    BY <1>1, <2>1 DEF Knows, Refused, Fetches, NoneSeen
<1> QED
  BY <1>2, <1>3

(* Only an insertion changes the table.  What the thread looked for was    *)
(* not in what it saw of the table, and is what it inserts, when plain.    *)
LEMMA SharedStep == Inductive /\ [Next]_vars => RowsWritten' /\ SharedOnlyInRace'
<1> SUFFICES ASSUME Inductive, [Next]_vars PROVE RowsWritten' /\ SharedOnlyInRace'
  OBVIOUS
<1>1. CASE UNCHANGED accounts
  BY <1>1 DEF Inductive, SharedOnlyInRace, RowsWritten, Same
<1>2. ASSUME NEW h \in Handlers, Insert(h) PROVE RowsWritten' /\ SharedOnlyInRace'
  <2>1. TypeOK /\ Knows(h) /\ accounts \in Seq(Accounts) /\ pc[h] = "insert"
    BY <1>2 DEF Inductive, TypeOK, Accounts, Insert
  <2>2. request[h].user \in Users /\ seen[h] \in Counts /\ Written(request[h].user) \in Row
    BY <1>2, <2>1 DEF Knows, Registers, TypeOK, Insert
  <2> DEFINE account == [row |-> Written(request[h].user), typed |-> request[h].user,
                         saw |-> seen[h]]
  <2>3. accounts' = Append(accounts, account) /\ account \in Accounts
    BY <1>2, <2>2 DEF Insert, Accounts
  <2>4. /\ Len(accounts) \in Nat /\ Len(accounts') = Len(accounts) + 1
        /\ accounts'[Len(accounts) + 1] = account
        /\ \A i \in 1..Len(accounts) : accounts'[i] = accounts[i]
    BY <2>1, <2>3, AppendFacts
  <2>5. ASSUME NEW column \in Columns
        PROVE  NotThere(column, account.typed[column], seen[h][column])
    BY <2>1, <2>5, ColumnsAre DEF Knows
  <2>6. account.saw = seen[h] /\ \A column \in Columns : seen[h][column] \in Nat
    BY <2>2 DEF Counts
  <2>7. /\ account.row = Written(account.typed)
        /\ \A column \in Columns : account.row[column] = Literal[account.typed[column]]
    BY <2>2, WrittenFacts
  <2> HIDE DEF account
  <2>8. RowsWritten'
    BY <2>4, <2>7 DEF Inductive, RowsWritten, Written
  <2>9. ASSUME NEW i \in 1..Len(accounts'), NEW j \in 1..Len(accounts'), NEW column \in Columns,
               i < j, Same(accounts'[i].row[column], accounts'[j].row[column])
        PROVE  \/ accounts'[j].saw[column] < i
               \/ ~Plain(accounts'[j].typed[column])
               \/ accounts'[i].row[column] # accounts'[j].row[column]
    <3>1. i \in 1..Len(accounts)
      BY <2>4, <2>9
    <3>2. CASE j \in 1..Len(accounts)
      <4>1. accounts'[i] = accounts[i] /\ accounts'[j] = accounts[j]
        BY <2>4, <3>1, <3>2
      <4> QED
        BY <2>9, <3>1, <3>2, <4>1 DEF Inductive, SharedOnlyInRace
    <3>3. CASE j = Len(accounts) + 1
      <4>1. accounts'[i] = accounts[i] /\ accounts'[j] = account
        BY <2>4, <3>1, <3>3
      <4>2. CASE i \in 1..seen[h][column]
        <5>1. accounts[i].row[column] # account.typed[column]
          BY <2>5, <4>2 DEF NotThere
        <5> QED
          BY <2>7, <4>1, <5>1 DEF Plain
      <4>3. CASE i \notin 1..seen[h][column]
        BY <2>4, <2>6, <3>1, <4>1, <4>3
      <4> QED
        BY <4>2, <4>3
    <3> QED
      BY <2>4, <2>9, <3>2, <3>3
  <2>10. SharedOnlyInRace'
    BY <2>9 DEF SharedOnlyInRace, Same, Plain
  <2> QED
    BY <2>8, <2>10
<1>3. UNCHANGED vars => UNCHANGED accounts
  BY DEF vars
<1> QED
  BY <1>1, <1>2, <1>3 DEF Next, Receive, Fail, Select, Existence, Password, Reply

(* Every step keeps the invariant.                                         *)
LEMMA InductiveStep == Inductive /\ [Next]_vars => Inductive'
<1> SUFFICES ASSUME Inductive, [Next]_vars PROVE Inductive'
  OBVIOUS
<1>1. TypeOK' /\ RowsWritten' /\ SharedOnlyInRace'
  BY TypeStep, SharedStep
<1>2. ASSUME NEW g \in Handlers PROVE Knows(g)' /\ Refused(g)'
  <2>1. CASE UNCHANGED vars
    BY <2>1, OthersKnowStill DEF Inductive, vars, handlerVars
  <2>2. ASSUME NEW h \in Handlers,
               \/ Receive(h) \/ Fail(h) \/ Select(h) \/ Existence(h) \/ Password(h)
               \/ Insert(h) \/ Reply(h)
        PROVE  Knows(g)' /\ Refused(g)'
    <3>1. CASE g = h
      BY <2>2, <3>1, ReceiveStep, FailStep, SelectStep, ExistenceStep, PasswordStep, LastSteps
    <3>2. CASE g # h
      BY <2>2, <3>2, OthersStep
    <3> QED
      BY <3>1, <3>2
  <2> QED
    BY <2>1, <2>2 DEF Next
<1> QED
  BY <1>1, <1>2 DEF Inductive

(* The invariant holds in every reachable state.                           *)
THEOREM AlwaysInductive == Spec => []Inductive
  BY InductiveInit, InductiveStep, PTL DEF Spec

(* Type correctness of the table and of the threads.                       *)
THEOREM TypeCorrect == Spec => []TypeOK
<1>1. Inductive => TypeOK
  BY DEF Inductive
<1> QED
  BY AlwaysInductive, <1>1, PTL

(* Accounts share a name or an address, to the database, only through the  *)
(* race between the two checks and the insertion, a text that is not read  *)
(* back as typed, or a difference that strcmp sees and "=" does not.       *)
THEOREM SharedSafe == Spec => []SharedOnlyInRace
<1>1. Inductive => SharedOnlyInRace
  BY DEF Inductive
<1> QED
  BY AlwaysInductive, <1>1, PTL

(* Whoever registered with plain texts signs in with them unless another   *)
(* account's name is the same to the database.                             *)
THEOREM OwnersSafe == Spec => []OwnersSignIn
<1>1. Inductive => OwnersSignIn
  BY DEF Inductive, Refused, OwnersSignIn
<1> QED
  BY AlwaysInductive, <1>1, PTL

(* The row that checkPassword dereferences is there for a plain name.      *)
THEOREM RowSafe == Spec => []PasswordHasRow
<1>1. Inductive => PasswordHasRow
  BY DEF Inductive, Knows, PasswordHasRow
<1> QED
  BY AlwaysInductive, <1>1, PTL
=============================================================================
