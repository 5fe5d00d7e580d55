--------------------------- MODULE MCRegistration ---------------------------
(***************************************************************************)
(* A small instance of Registration: two threads; a name, the same in      *)
(* capitals, with a backslash before a letter, with two of them, with a    *)
(* quote in it; an address.                                                *)
(***************************************************************************)
EXTENDS Registration, TLC
CONSTANTS
  h1, h2, name, capitals, backslash, backslashes, quote, address, malformed

MCTexts == {name, capitals, backslash, backslashes, quote, address}
MCLiteral == [t \in MCTexts |->
  CASE t = backslash -> name [] t = backslashes -> backslash [] t = quote -> malformed
    [] OTHER -> t]
MCFold == [t \in MCTexts |-> IF t = capitals THEN name ELSE t]

(* An address and a name serve as email; three texts as password.          *)
User(u, e, p) == [username |-> u, email |-> e, password |-> p]
MCUsers ==
  {User(u, address, name) : u \in {name, backslashes, quote}}
    \cup {User(u, name, capitals) : u \in {name, capitals, backslash}}
    \cup {User(address, name, backslash)}
MCLogins ==
  {[text |-> t, password |-> name] : t \in MCTexts}
    \cup {[text |-> t, password |-> capitals] : t \in {name, capitals}}

(* Nothing tells the threads apart.                                        *)
Symmetry == Permutations(Handlers)
=============================================================================
