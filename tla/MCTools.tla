------------------------------ MODULE MCTools ------------------------------
(* Small instances of the tools: compressor, generator of entities, and    *)
(* transformations under a key.  A behavior uses one of them.              *)
EXTENDS Codec, MakeCode, Transcode

CONSTANTS Words     \* a comment

VARIABLE tool

\* Inputs of the compressor, and the room it is given.
Sources == UNION {[1 .. n -> 0 .. (Base - 1)] : n \in 1 .. SrcLen}
Rooms == 1 .. SrcLen + 3

\* Inputs of the generator: expressions, pairs of them, and files.
Num(n) == [t |-> "num", n |-> n]
Sym(s) == [t |-> s, n |-> 0]
HexNum(n, d) == [t |-> "hex", n |-> n, dec |-> d]
Name(n, cut) == [t |-> "name", n |-> n, cut |-> cut]
Size(text) == [kind |-> "S", name |-> "s", text |-> text]

Numbers == {<<Num(0)>>, <<Num(2)>>, <<Num(3)>>}
Some == {Num(2), Num(3), HexNum(18, 12), HexNum(11, 0)}
            \cup {Sym(s) : s \in {"+", "/", "#", "(", ")"}}
TwoNumbers(s) == \E i \in 1 .. (Len(s) - 1) : s[i].t \in {"num", "hex"} /\ s[i + 1].t \in {"num", "hex"}
Short == {s \in UNION {[1 .. n -> Some] : n \in 1 .. 4} : ~TwoNumbers(s)}

Joined(A, O, B) == {a \o <<Sym(o)>> \o b : a \in A, o \in O, b \in B}
InParentheses(A) == {<<Sym("(")>> \o a \o <<Sym(")")>> : a \in A}
Simple == Joined(Numbers, Operators, Numbers)
Terms == {<<Num(2)>>, <<Num(3)>>} \cup
            InParentheses(Joined({<<Num(2)>>, <<Num(3)>>}, {"-", "*"}, {<<Num(2)>>, <<Num(3)>>}))
Double == Joined(Terms, {"-", "*"}, Terms)
Triple == Joined(Terms, {"-", "*"}, Double)

\* sizeof(int), and UINT_MAX.
Names == {<<Name(4, FALSE)>>, <<Name(255, TRUE)>>}
Named == Names \cup InParentheses(Names)
            \cup Joined(Names, {"-", "/"}, Numbers \cup Names) \cup Joined(Numbers, {"-", "/"}, Names)

Earlier == {<<Num(2), Sym("-"), Num(3)>>, <<Sym("("), Num(2), Sym("*"), Num(3), Sym(")")>>}

Lines ==
    {[kind |-> "other", name |-> "", text |-> None], [kind |-> "file", name |-> "", text |-> None],
     [kind |-> "#", name |-> "", text |-> Words], [kind |-> "#", name |-> "", text |-> None],
     [kind |-> "D", name |-> "d", text |-> "bytes"], [kind |-> "D", name |-> "e", text |-> None],
     [kind |-> "I", name |-> "i", text |-> "bytes"],
     Size(None), Size(<<Num(2)>>), Size(<<Sym("("), Num(3), Sym(")")>>)}

Inputs ==
    {<<Size(s)>> : s \in Short \cup Simple \cup Double \cup Triple \cup Named}
    \cup {<<Size(s), Size(u)>> : s \in Earlier, u \in Simple \cup Double}
    \cup UNION {[1 .. n -> Lines] : n \in 0 .. 4}

\* Data of every length up to the cells and more, under every key.
Data == {<<>>, <<6>>, <<13, 6>>, <<0, 13, 6>>}
Keys1 == 0 .. Ones
Keys2 == {77, 200}

NoCodec == CodecInit({<<0>>}, {1})
NoMake == MakeInit({<<>>})
NoCross == CrossInit({<<>>}, {0}, {0})

Init ==
    \/ tool = "codec" /\ CodecInit(Sources, Rooms) /\ NoMake /\ NoCross
    \/ tool = "make" /\ MakeInit(Inputs) /\ NoCodec /\ NoCross
    \/ tool = "cross" /\ CrossInit(Data, Keys1, Keys2) /\ NoCodec /\ NoMake

UseCodec == tool = "codec" /\ CodecNext /\ UNCHANGED <<tool, makeVars, evalVars, crossVars>>
UseMake == tool = "make" /\ MakeNext /\ UNCHANGED <<tool, codecVars, crossVars>>
UseCross == tool = "cross" /\ CrossNext /\ UNCHANGED <<tool, codecVars, makeVars, evalVars>>

Next == UseCodec \/ UseMake \/ UseCross
Spec == Init /\ [][Next]_<<tool, codecVars, makeVars, evalVars, crossVars>>
=============================================================================
