------------------------------ MODULE MCStrBuf ------------------------------
(* A letter and a blank; chunks of two or three bytes instead of 64 and 8192, *)
(* so that every loop that grows a buffer goes round more than once.          *)
EXTENDS StrBuf

MCChar == {"a", " "}
MCBlank == {" "}

=============================================================================
