---------------------------- MODULE Registration ----------------------------
(***************************************************************************)
(* The users' table as the network manager uses it: every                  *)
(* NetworkClientHandler thread registers users and signs them in over one  *)
(* connection to the database, without a lock.  To register, a thread      *)
(* looks for the username, then for the email, then inserts; to sign in,   *)
(* it looks for the user, then for the password.  The texts are put into   *)
(* the queries between quotes and as they are: the database takes them for *)
(* literals, in which a backslash or a quote is not a character of the     *)
(* text.  The database is external: a query may fail, and does while the   *)
(* result of another thread's query has not been fetched.  Nothing in the  *)
(* repository makes a column unique, or says how a column is collated.     *)
(***************************************************************************)
EXTENDS Naturals, Sequences

CONSTANTS
  Handlers,      \* the threads
  Texts,         \* what users type
  WithAt,        \* the texts that have an "@"
  Users,         \* who registers: username, email and password as they are typed
  Logins,        \* who signs in: a username or an email, and a password
  Literal,       \* what the database reads where a text stands between quotes
  Malformed,     \* ... when that makes the query one it does not understand
  Fold,          \* texts are equal to "=" when they fold to the same
  MaxRequests,   \* bound: how many requests a thread handles
  None           \* no thread, no request

ASSUME RegistrationAssumption ==
  /\ WithAt \subseteq Texts
  /\ Users \subseteq [username : Texts, email : Texts, password : Texts]
  /\ Logins \subseteq [text : Texts, password : Texts]
  /\ Malformed \notin Texts /\ Literal \in [Texts -> Texts \cup {Malformed}]
  /\ Fold \in [Texts -> Texts]
  /\ MaxRequests \in Nat
  /\ None \notin Handlers

Columns == {"username", "email"}
Row == [username : Texts, email : Texts, password : Texts]
Requests == [command : {"REGISTER_USER"}, user : Users]
  \cup [command : {"LOGIN_USER"}, login : Logins]

(* The text that is read back as it was typed.                             *)
Plain(text) == Literal[text] = text

(* The row that the literals of an INSERT make.                            *)
Written(user) == [username |-> Literal[user.username], email |-> Literal[user.email],
                  password |-> Literal[user.password]]

VARIABLES
  accounts,   \* the table users: its row, who typed what for it, and what was seen then
  pending,    \* whose result the connection holds
  pc,         \* where each thread is
  request,    \* what it is asked
  began,      \* the table's length when it was asked
  seen,       \* the table's length when it last looked into a column
  answer,     \* what parseMessage comes to
  handled,    \* how many requests it has handled
  down        \* whether the program has crashed

handlerVars == <<request, began, handled>>
vars == <<accounts, pending, pc, seen, answer, handlerVars, down>>

Counts == [Columns -> Nat]
NoneSeen == [column \in Columns |-> 0]
Selects == {"findUsername", "findEmail", "findUser", "findPassword"}
Fetches == {"gotUsername", "gotEmail", "gotUser", "gotPassword"}
Fetch == [findUsername |-> "gotUsername", findEmail |-> "gotEmail",
          findUser |-> "gotUser", findPassword |-> "gotPassword"]

TypeOK ==
  /\ accounts \in Seq([row : Row, typed : Users, saw : Counts])
  /\ pending \in Handlers \cup {None}
  /\ pc \in [Handlers -> {"receive", "insert", "reply"} \cup Selects \cup Fetches]
  /\ request \in [Handlers -> Requests \cup {None}]
  /\ began \in [Handlers -> Nat] /\ seen \in [Handlers -> Counts]
  /\ answer \in [Handlers -> {"none", "OK", "exists", "missing", "bad", "failed"}]
  /\ handled \in [Handlers -> 0..MaxRequests] /\ down \in BOOLEAN

Init ==
  /\ accounts = <<>> /\ pending = None
  /\ pc = [h \in Handlers |-> "receive"]
  /\ request = [h \in Handlers |-> None]
  /\ began = [h \in Handlers |-> 0] /\ seen = [h \in Handlers |-> NoneSeen]
  /\ answer = [h \in Handlers |-> "none"]
  /\ handled = [h \in Handlers |-> 0] /\ down = FALSE

-----------------------------------------------------------------------------
Goto(h, place) == pc' = [pc EXCEPT ![h] = place]

(* parseMessage has come to its end, or thrown.                            *)
Answer(h, what) ==
  /\ answer' = [answer EXCEPT ![h] = what]
  /\ Goto(h, "reply")

(* parseMessage of a request to register or to sign in.                    *)
Receive(h) ==
  /\ pc[h] = "receive" /\ handled[h] < MaxRequests
  /\ \E r \in Requests :
       /\ request' = [request EXCEPT ![h] = r]
       /\ Goto(h, IF r.command = "REGISTER_USER" THEN "findUsername" ELSE "findUser")
  /\ began' = [began EXCEPT ![h] = Len(accounts)]
  /\ handled' = [handled EXCEPT ![h] = @ + 1]
  /\ UNCHANGED <<accounts, pending, seen, answer>>

(* The line of the message that a step needs is missing, or the query or   *)
(* the fetch of its result fails.                                          *)
Fail(h) ==
  /\ pc[h] \in Selects \cup Fetches \cup {"insert"}
  /\ pending' = IF pending = h THEN None ELSE pending
  /\ Answer(h, "failed")
  /\ UNCHANGED <<accounts, seen, handlerVars>>

(* An email is told from a username by its "@".                            *)
TypeOfData(text) == IF text \in WithAt THEN "email" ELSE "username"

Column(h) == CASE pc[h] \in {"findUsername", "gotUsername"} -> "username"
               [] pc[h] \in {"findEmail", "gotEmail"} -> "email"
               [] OTHER -> TypeOfData(request[h].login.text)

(* mysql_query of a SELECT: the database answers from the present table.   *)
(* Only the one for the password names a text.                             *)
Select(h) ==
  /\ pc[h] \in Selects /\ pending = None
  /\ pc[h] = "findPassword" => Literal[request[h].login.text] # Malformed
  /\ pending' = h
  /\ seen' = [seen EXCEPT ![h][Column(h)] = Len(accounts)]
  /\ Goto(h, Fetch[pc[h]])
  /\ UNCHANGED <<accounts, answer, handlerVars>>

-----------------------------------------------------------------------------
(* The rows of the result in which the column has this text: strcmp.       *)
FirstRow(h, text) ==                    \* a slip: only the first row is looked at
  {i \in {1} \cap 1..seen[h][Column(h)] : accounts[i].row[Column(h)] = text}
OtherColumn(h, text) ==                 \* a slip: the text may be in the other column
  {i \in 1..seen[h][Column(h)] : text \in {accounts[i].row.username, accounts[i].row.email}}
Rows(h, text) == {i \in 1..seen[h][Column(h)] : accounts[i].row[Column(h)] = text}

(* mysql_store_result and the loop over the rows, in checkExistance.       *)
Existence(h) ==
  /\ pc[h] \in Fetches \ {"gotPassword"}
  /\ pending' = None
  /\ CASE pc[h] = "gotUsername" /\ Rows(h, request[h].user.username) = {}
            -> Goto(h, "findEmail") /\ UNCHANGED answer
       [] pc[h] = "gotEmail" /\ Rows(h, request[h].user.email) = {}
            -> Goto(h, "insert") /\ UNCHANGED answer
       [] pc[h] = "gotUser" /\ Rows(h, request[h].login.text) # {}
            -> Goto(h, "findPassword") /\ UNCHANGED answer
       [] OTHER -> Answer(h, IF pc[h] = "gotUser" THEN "missing" ELSE "exists")
  /\ UNCHANGED <<accounts, seen, handlerVars>>

(* The rows in which the column is equal, to the database, to the literal. *)
Same(a, b) == Fold[a] = Fold[b]
HasText(h) ==
  {i \in 1..seen[h][Column(h)] :
     Same(accounts[i].row[Column(h)], Literal[request[h].login.text])}

(* checkPassword compares the password with that of the first row that the *)
(* database returns, in whatever order, and does not look whether there is *)
(* one: without one it dereferences NULL.                                  *)
Password(h) ==
  /\ pc[h] = "gotPassword"
  /\ pending' = None
  /\ \/ \E i \in HasText(h) :
            Answer(h, IF accounts[i].row.password = request[h].login.password
                      THEN "OK" ELSE "bad")
        /\ UNCHANGED down
     \/ /\ HasText(h) = {} /\ down' = TRUE
        /\ UNCHANGED <<pc, answer>>
  /\ UNCHANGED <<accounts, seen, handlerVars>>

(* insertNewUser.                                                          *)
Insert(h) ==
  /\ pc[h] = "insert" /\ pending = None
  /\ Written(request[h].user) \in Row
  /\ accounts' = Append(accounts, [row |-> Written(request[h].user),
                                   typed |-> request[h].user, saw |-> seen[h]])
  /\ Answer(h, "OK")
  /\ UNCHANGED <<pending, seen, handlerVars>>

(* The answer is sent, and what the request left is forgotten.             *)
Reply(h) ==
  /\ pc[h] = "reply"
  /\ Goto(h, "receive")
  /\ request' = [request EXCEPT ![h] = None]
  /\ began' = [began EXCEPT ![h] = 0]
  /\ seen' = [seen EXCEPT ![h] = NoneSeen]
  /\ answer' = [answer EXCEPT ![h] = "none"]
  /\ UNCHANGED <<accounts, pending, handled>>

Next ==
  /\ ~down
  /\ \E h \in Handlers :
       \/ Password(h)
       \/ /\ Receive(h) \/ Fail(h) \/ Select(h) \/ Existence(h) \/ Insert(h) \/ Reply(h)
          /\ UNCHANGED down

Spec == Init /\ [][Next]_vars

-----------------------------------------------------------------------------
(* Two accounts have a username, or an email, that is the same to the      *)
(* database only for one of three causes: the later one looked for it      *)
(* before the earlier one was inserted (parseRegisterMessage: nothing is   *)
(* locked between the checks and the insertion); what the database read in *)
(* the later one's text is not what was typed and looked for; or the two   *)
(* differ to strcmp, as in their case (checkExistance).                    *)
SharedOnlyInRace ==
  \A i, j \in 1..Len(accounts), column \in Columns :
    i < j /\ Same(accounts[i].row[column], accounts[j].row[column]) =>
      \/ accounts[j].saw[column] < i
      \/ ~Plain(accounts[j].typed[column])
      \/ accounts[i].row[column] # accounts[j].row[column]

(* Whoever has an account and signs in with the name and the password that *)
(* were typed for it, both plain, is refused only by the database, or      *)
(* because somebody else's account has a name that is the same to it.  A   *)
(* username with an "@" does not count as a name, nor an email without     *)
(* (parseLoginMessage).                                                    *)
Owns(i, login) ==
  /\ accounts[i].typed[TypeOfData(login.text)] = login.text
  /\ accounts[i].typed.password = login.password
Named(i, text) == Same(accounts[i].row[TypeOfData(text)], text)
OwnersSignIn ==
  \A h \in Handlers :
    /\ pc[h] = "reply" /\ request[h].command = "LOGIN_USER" /\ answer[h] \in {"missing", "bad"}
    /\ Plain(request[h].login.text) /\ Plain(request[h].login.password)
    => \A i \in 1..began[h] :
         Owns(i, request[h].login) =>
           \E j \in 1..Len(accounts) \ {i} : Named(j, request[h].login.text)

(* The row that checkPassword dereferences is there, and the program does  *)
(* not crash on it, when the name is a plain text: the user that           *)
(* checkExistance found is found again.                                    *)
PasswordHasRow ==
  \A h \in Handlers :
    pc[h] = "gotPassword" /\ Plain(request[h].login.text) => HasText(h) # {}
=============================================================================
