--------------------------- MODULE MCFtpTransfer ---------------------------
(***************************************************************************)
(* A user who logs in, chooses a mode and transfers files.                 *)
(***************************************************************************)
EXTENDS FtpTransfer

\* With -2..1 for int, "wide" is what 2^32 + 1 is: a number that atoi makes a smaller one.
Numbers == [good |-> 1, zero |-> 0, wide |-> 5, bad |-> -1]

Command(verb, arg) == [verb |-> verb, arg |-> arg]

UserInputs ==
    {Command("USER", "good"), Command("PASS", "none"), Command("PORT", "good"),
     Command("REST", "good"), Command("RETR", "good"), Command("get", "good"),
     Command("put", "good"), Command("QUIT", "none")}

\* `get` and `put` send some of their own, ^C sends ABOR.
Sent ==
    {r \in UserInputs : r.verb \notin Client!Macros} \cup
        {Command("SIZE", "good"), Command("REST", "wide"), Command("PASV", "none"),
         Command("STOR", "good"), Command("ABOR", "none")}

ServerCodes ==
    {150, 200, 213, 215, 220, 221, 226, 227, 230, 250, 257, 331, 350, 425, 426, 451,
     500, 501, 502, 504, 530, 550}
=============================================================================
