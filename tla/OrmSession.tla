----------------------------- MODULE OrmSession -----------------------------
(***************************************************************************)
(* What a request's database session does with the rows it has loaded.     *)
(*                                                                         *)
(* A route loads a row, changes attributes of the object and commits.  The *)
(* session compares each attribute with the value it loaded and updates    *)
(* the columns that differ, so a column the request set to the value it    *)
(* had already is not written, and a column another request changed in the *)
(* meantime survives unless this request changed it as well.               *)
(***************************************************************************)

\* The row after the commit of a request that loaded `read` and left the object as
\* `new`, when the table holds `now`.
Flushed(now, read, new) ==
    [column \in DOMAIN now |->
        IF new[column] = read[column] THEN now[column] ELSE new[column]]
=============================================================================
