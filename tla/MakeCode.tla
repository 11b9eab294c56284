------------------------------ MODULE MakeCode ------------------------------
(***************************************************************************)
(* The generator of the encrypted entities (precursors/mkc.c): it reads    *)
(* the lines of its input and writes declarations, data and the cases of a *)
(* switch.                                                                 *)
(*                                                                         *)
(* A line is a record [kind, name, text].  The text of a comment is its    *)
(* words; of an entity of code, whether there are bytes; of a size, a      *)
(* sequence of tokens.  A hexadecimal number among them is [t |-> "hex",   *)
(* n |-> its value, dec |-> what its digits say in decimal], the size of a *)
(* type or a limit [t |-> "name", n |-> its value, cut |-> whether a name  *)
(* inside it is replaced before it, as INT_MAX in UINT_MAX].  None is an   *)
(* empty text.  A line of the kind "file" is the start of another input    *)
(* file.  The key of an entity is random; its name stands for it.          *)
(***************************************************************************)
EXTENDS Evaluator

CONSTANT None

VARIABLES
    input, read,       \* the lines, and how many of them were read
    comment,           \* the comment kept for the next entity
    decl, dat, impl,   \* what was written to the three files
    make               \* "reading", "evaluating", "done" or "failed"

files == <<decl, dat, impl>>
makeVars == <<input, read, comment, decl, dat, impl, make>>

MakeInit(Inputs) ==
    /\ EvalInit
    /\ input \in Inputs /\ read = 0
    /\ comment = None
    /\ decl = <<>> /\ dat = <<>> /\ impl = <<>>
    /\ make = "reading"

Code == {"D", "F", "I"}
Entity == Code \cup {"S"}
Line == input[read + 1]
Reading == make = "reading" /\ read < Len(input)
LineDone == read' = read + 1

\* A blank line, one of no known kind, or data too short to be an entity.
SkipLine ==
    /\ Reading /\ Line.kind = "other"
    /\ LineDone
    /\ UNCHANGED <<input, comment, files, make, evalVars>>

\* The next input file starts without a comment.
NextFile ==
    /\ Reading /\ Line.kind = "file"
    /\ comment' = None
    /\ LineDone
    /\ UNCHANGED <<input, files, make, evalVars>>

\* A comment without words takes the one before it away.
TakeComment ==
    /\ Reading /\ Line.kind = "#"
    /\ comment' = Line.text
    /\ LineDone
    /\ UNCHANGED <<input, files, make, evalVars>>

\* A mutant: the comment of a line that was dropped goes to the next.
KeepComment == IF Line.text = None THEN comment ELSE None

CommentAfter == None

\* No bytes, or no expression: the line is dropped, and its comment.
DropEntity ==
    /\ Reading /\ Line.kind \in Entity /\ Line.text = None
    /\ comment' = CommentAfter
    /\ LineDone
    /\ UNCHANGED <<input, files, make, evalVars>>

\* The checksum is of the plain bytes, the bytes are put under the key.
Encoded(name) == [key |-> name, bytesUnder |-> name, crcKey |-> name, crcOf |-> None]

Declared == decl' = Append(decl, [name |-> Line.name, comment |-> comment])

EmitCode ==
    /\ Reading /\ Line.kind \in Code /\ Line.text # None
    /\ dat' = Append(dat, [name |-> Line.name, code |-> Encoded(Line.name), size |-> 0])
    /\ Declared
    /\ impl' = Append(impl, [name |-> Line.name, loads |-> TRUE, executable |-> Line.kind # "D"])
    /\ comment' = CommentAfter
    /\ LineDone
    /\ UNCHANGED <<input, make, evalVars>>

EmitSize(v) ==
    /\ dat' = Append(dat, [name |-> Line.name, code |-> None, size |-> v])
    /\ Declared
    /\ impl' = Append(impl, [name |-> Line.name, loads |-> FALSE, executable |-> FALSE])
    /\ comment' = CommentAfter
    /\ LineDone

(***************************************************************************)
(* evaluate_size: names are replaced by their values, one after the other, *)
(* and what is left of a name that was cut is a letter before digits,      *)
(* which reads as 0.  The prefix of a leading hexadecimal number is taken  *)
(* off, and its digits are read as decimal; after that nothing passes the  *)
(* test for digits alone, which runs past the end.  A decimal number alone *)
(* is taken as it is.                                                      *)
(***************************************************************************)
Replaced(t) == IF t.t = "name" /\ ~t.cut THEN [t |-> "num", n |-> t.n] ELSE t

NumberRead(t, first) ==
    CASE t.t = "name" -> 0
      [] t.t = "hex"  -> IF first THEN t.dec ELSE t.n
      [] OTHER        -> t.n

Tokens(s) ==
    [i \in DOMAIN s |->
        IF s[i].t \in {"name", "hex"} THEN [t |-> "num", n |-> NumberRead(Replaced(s[i]), i = 1)]
        ELSE s[i]]

Alone(s) == Len(s) = 1 /\ Replaced(s[1]).t = "num"

TakeNumber ==
    /\ Reading /\ Line.kind = "S" /\ Line.text # None /\ Alone(Line.text)
    /\ EmitSize(Replaced(Line.text[1]).n % Word)
    /\ UNCHANGED <<input, make, evalVars>>

StartEval ==
    /\ Reading /\ Line.kind = "S" /\ Line.text # None /\ ~Alone(Line.text)
    /\ expr' = Tokens(Line.text) /\ val' = 0 /\ eval' = "busy"
    /\ make' = "evaluating"
    /\ UNCHANGED <<input, read, comment, files, sta, arg, ops, par>>

Evaluate ==
    /\ make = "evaluating"
    /\ EvalNext
    /\ UNCHANGED makeVars

FinishSize ==
    /\ make = "evaluating" /\ eval = "ok"
    /\ EmitSize(val)
    /\ eval' = "idle" /\ make' = "reading"
    /\ UNCHANGED <<input, expr, sta, arg, ops, par, val>>

GiveUp ==
    /\ make = "evaluating" /\ eval = "error"
    /\ make' = "failed"
    /\ UNCHANGED <<input, read, comment, files, evalVars>>

CloseFiles ==
    /\ make = "reading" /\ read = Len(input)
    /\ make' = "done"
    /\ UNCHANGED <<input, read, comment, files, evalVars>>

MakeNext ==
    \/ SkipLine \/ NextFile \/ TakeComment \/ DropEntity \/ EmitCode \/ TakeNumber
    \/ StartEval \/ Evaluate \/ FinishSize \/ GiveUp \/ CloseFiles

(***************************************************************************)
(* Properties.                                                             *)
(***************************************************************************)
Kept == SelectSeq([i \in 1 .. read |-> i], LAMBDA i : input[i].kind \in Entity /\ input[i].text # None)

\* Nothing was evaluated before this line.
First == \A i \in 1 .. read : input[i].kind = "S" /\ input[i].text # None => Alone(input[i].text)

\* The expression with every number and name standing for its own value.
Meant(s) ==
    [i \in DOMAIN s |->
        IF s[i].t \in {"name", "hex"} THEN [t |-> "num", n |-> s[i].n] ELSE s[i]]

\* No number of it is misread: the code takes a leading hexadecimal one for
\* decimal (640-643, 692) and a name that was cut for 0.
ReadRight(s) == s[1].t # "hex" /\ \A i \in DOMAIN s : s[i].t = "name" => ~s[i].cut

\* Whatever was evaluated before it, an expression that is well formed and
\* written gets the value that arithmetic gives it from right to left, unless
\* a number of it is misread, and one without a value is never written.  One
\* that has a value and is refused either divides zero (773, 779: 0/2 is
\* refused like 2/0), or is not the first to be evaluated and starts without a
\* parenthesis.  An ill-formed one may be given a value: the code takes ")" for
\* 0 (evaluate_size 537-661, eval 675-718).
SizesRight ==
    /\ \A k \in DOMAIN Kept :
        LET l == input[Kept[k]]
            s == Meant(l.text)
        IN  l.kind = "S" /\ ReadRight(l.text) /\ WellFormed(s) => dat[k].size = Meaning(s)
    /\ make = "failed" /\ ReadRight(Line.text) =>
        LET s == Meant(Line.text)
        IN  WellFormed(s) /\ Meaning(s) # -1 =>
                ZeroDivided(s) \/ (~First /\ s[1].t # "(")

\* Each entity carries the comment that stands before it with nothing but
\* skipped lines between, never that of another entity, of one that was
\* dropped or of another file (main 304, 316-321, 353-381, 461).
CommentsOwn ==
    \A k \in DOMAIN Kept :
        LET before == {j \in 1 .. (Kept[k] - 1) : input[j].kind # "other"}
            last == CHOOSE j \in before : \A m \in before : m <= j
        IN  decl[k].comment =
                IF before = {} \/ input[last].kind # "#" THEN None ELSE input[last].text

\* The three files have the same entities in the same order, also when the
\* run is given up, and what is loaded is under its key with a checksum of
\* its plain bytes, which is what Context starts from (main 396-459).
FilesAgree ==
    /\ Len(decl) = Len(Kept) /\ Len(dat) = Len(Kept) /\ Len(impl) = Len(Kept)
    /\ \A k \in DOMAIN Kept :
        LET l == input[Kept[k]]
        IN  /\ decl[k].name = l.name /\ dat[k].name = l.name /\ impl[k].name = l.name
            /\ impl[k].loads = (l.kind \in Code)
            /\ l.kind \in Code =>
                dat[k].code = [key |-> l.name, bytesUnder |-> l.name, crcKey |-> l.name, crcOf |-> None]

\* What is written of each entity is its own, in all three files.
FilesRight == CommentsOwn /\ FilesAgree
=============================================================================
