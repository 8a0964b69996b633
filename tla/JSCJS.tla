------------------------------- MODULE JSCJS -------------------------------
(***************************************************************************)
(* The three functions JSC.js exports to its embedder, with the buffers    *)
(* their results live in.  Each returns a char pointer, and the embedder   *)
(* reads it after the call has returned.  Bytecode travels as a string of  *)
(* hexadecimal digits; a text is modelled by what it says and, where it is *)
(* converted, by its characters.                                           *)
(***************************************************************************)
EXTENDS Integers, Sequences, FiniteSets

CONSTANTS
    Sources,            \* programs
    Malformed,          \* those with a syntax error
    Throwing,           \* those that end with an exception
    Bytecode,           \* the bytecode of each program, a sequence of char
    BadStrings,         \* strings the embedder passes that no program's bytecode reads as
    Addresses           \* the blocks of the C heap

char == -128 .. 127
ASSUME JSCJSAssumption ==
    /\ Malformed \subseteq Sources /\ Throwing \subseteq Sources \ Malformed
    /\ Bytecode \in [Sources -> Seq(char)] /\ \A s, t \in Sources : Bytecode[s] = Bytecode[t] => s = t
    /\ \A s \in Sources : Bytecode[s] # << >>
    /\ IsFiniteSet(Addresses) /\ 0 \notin Addresses

VARIABLES
    memory,             \* what each block of the C heap holds
    statics,            \* where the static CString of each function has its characters
    returned,           \* the pointer the last call returned, and what it should say
    kept                \* the last bytecode jsc_compile returned, which the embedder keeps

vars == <<memory, statics, returned, kept>>

Functions == {"jsc_eval", "jsc_compile", "jsc_eval_bytecode"}

\* A text: what it says, of which program, and its characters if it is bytecode.
Text(says, source, characters) == [says |-> says, source |-> source, characters |-> characters]
Free == Text("nothing", "none", << >>)
Nowhere == [address |-> 0, text |-> Free]

-----------------------------------------------------------------------------
(* The conversions.  Characters are ASCII codes. *)

s_hexTable(digit) == IF digit < 10 THEN 48 + digit ELSE 55 + digit

\* bytecodeToStr: two digits for each char, of its two's complement
bytecodeToStr(bytecode) ==
    [i \in 1 .. 2 * Len(bytecode) |->
        LET bits == bytecode[(i + 1) \div 2] % 256
        IN  s_hexTable(IF i % 2 = 1 THEN bits \div 16 ELSE bits % 16)]

isSpace(c) == c \in 9 .. 13 \cup {32}
(* Mutant: upper-case digits are not read. *)
digitValueLower(c) ==
    IF c \in 48 .. 57 THEN c - 48 ELSE IF c \in 97 .. 102 THEN c - 87 ELSE -1

digitValue(c) ==
    IF c \in 48 .. 57 THEN c - 48 ELSE IF c \in 97 .. 102 THEN c - 87 ELSE IF c \in 65 .. 70 THEN c - 55 ELSE -1

\* toIntStrict(&ok, 16) of two characters: white space around, a sign before the digits.
toIntStrict(c, d) ==
    LET one(e) == [ok |-> digitValue(e) >= 0, value |-> digitValue(e)]
    IN  IF digitValue(c) >= 0 /\ digitValue(d) >= 0 THEN [ok |-> TRUE, value |-> 16 * digitValue(c) + digitValue(d)]
        ELSE IF isSpace(d) THEN one(c)
        ELSE IF isSpace(c) \/ c = 43 THEN one(d)
        ELSE [ok |-> c = 45 /\ digitValue(d) >= 0, value |-> -digitValue(d)]

\* The conversion of an int to char
toChar(v) == ((v + 128) % 256) - 128

strToBytecode(str) ==
    LET at(i) == toIntStrict(str[2 * i - 1], str[2 * i])
        ok == Len(str) % 2 = 0 /\ \A i \in 1 .. Len(str) \div 2 : at(i).ok
    IN  [ok |-> ok, bytecode |-> IF ok THEN [i \in 1 .. Len(str) \div 2 |-> toChar(at(i).value)] ELSE << >>]

\* BadStrings is what its name says.
ASSUME BadStringsAssumption ==
    \A string \in BadStrings : strToBytecode(string).ok =>
        \A s \in Sources : Bytecode[s] # strToBytecode(string).bytecode

-----------------------------------------------------------------------------
(* The C heap. *)

\* static CString ret; ret = text.utf8(); return ret.data();
ReturnStatic(function, text) ==
    \E a \in {b \in Addresses : memory[b] = Free} :
        /\ memory' = [b \in Addresses |-> IF b = a THEN text ELSE IF b = statics[function] THEN Free ELSE memory[b]]
        /\ statics' = [statics EXCEPT ![function] = a]
        /\ returned' = [address |-> a, text |-> text]

\* return text.utf8().data(): the CString is destroyed before the caller reads it.
ReturnTemporary(text) ==
    \E a \in {b \in Addresses : memory[b] = Free} :
        /\ returned' = [address |-> a, text |-> text]
        /\ UNCHANGED <<memory, statics>>

\* A string literal, which is always there.
ReturnLiteral(text) == returned' = [address |-> 0, text |-> text] /\ UNCHANGED <<memory, statics>>

Outcome(s) == Text(IF s \in Throwing THEN "exception" ELSE "value", s, << >>)

-----------------------------------------------------------------------------
Init ==
    /\ memory = [a \in Addresses |-> Free] /\ statics = [f \in Functions |-> 0]
    /\ returned = Nowhere /\ kept = Nowhere

(* Mutant: the result shares jsc_compile's buffer. *)
jsc_eval_sharing(s) ==
    /\ IF s \in Malformed THEN ReturnTemporary(Text("syntax error", s, << >>))
       ELSE ReturnStatic("jsc_compile", Outcome(s))
    /\ UNCHANGED kept

jsc_eval(s) ==
    /\ IF s \in Malformed THEN ReturnTemporary(Text("syntax error", s, << >>))
       ELSE ReturnStatic("jsc_eval", Outcome(s))
    /\ UNCHANGED kept

jsc_compile(s) ==
    IF s \in Malformed THEN ReturnTemporary(Text("syntax error", s, << >>)) /\ UNCHANGED kept
    ELSE ReturnStatic("jsc_compile", Text("bytecode", s, bytecodeToStr(Bytecode[s]))) /\ kept' = returned'

\* The characters at src are read first, from memory as it then is.
EvaluateCharacters(characters) ==
    LET decoded == strToBytecode(characters)
    IN  /\ IF decoded.ok
           THEN \E s \in Sources : Bytecode[s] = decoded.bytecode /\ ReturnStatic("jsc_eval_bytecode", Outcome(s))
           ELSE ReturnLiteral(Text("invalid bytecode", "none", << >>))
        /\ UNCHANGED kept

jsc_eval_bytecode == kept # Nowhere /\ EvaluateCharacters(memory[kept.address].characters)
jsc_eval_bytecode_of(string) == EvaluateCharacters(string)

Next ==
    \/ \E s \in Sources : jsc_eval(s) \/ jsc_compile(s)
    \/ jsc_eval_bytecode
    \/ \E string \in BadStrings : jsc_eval_bytecode_of(string)

Spec == Init /\ [][Next]_vars

-----------------------------------------------------------------------------
Texts ==
    {Free} \cup {Outcome(s) : s \in Sources \ Malformed} \cup {Text("syntax error", s, << >>) : s \in Malformed}
    \cup {Text("bytecode", s, bytecodeToStr(Bytecode[s])) : s \in Sources \ Malformed}
    \cup {Text("invalid bytecode", "none", << >>)}

TypeOK ==
    /\ memory \in [Addresses -> Texts] /\ statics \in [Functions -> Addresses \cup {0}]
    /\ returned \in [address: Addresses \cup {0}, text: Texts]
    /\ kept \in [address: Addresses \cup {0}, text: Texts]

\* The pointer a call returned points to what the call meant to say when the embedder
\* reads it: it is a literal, or its buffer is still there.
ResultIsReadable == returned.address # 0 => memory[returned.address] = returned.text

\* As long as only programs without syntax errors are evaluated, that is so.
ValueIsReadable == returned.text.says \in {"value", "exception", "bytecode"} => ResultIsReadable

\* The results of jsc_eval, jsc_eval_bytecode and jsc_compile do not overwrite each other:
\* the test shell passes a kept result of jsc_compile to later calls.
KeptBytecodeIsIntact == kept.address # 0 => memory[kept.address] = kept.text

\* The value of the last call is readable until the next call, and neither another
\* function's result nor a script changes the bytecode the page has kept.
ResultsStayReadable == TypeOK /\ ValueIsReadable /\ KeptBytecodeIsIntact

\* Evaluating the bytecode of a program has the outcome of evaluating the program: what
\* bytecodeToStr writes, strToBytecode reads back, whatever the sign of each char.
BytecodeRunsItsProgram == [][jsc_eval_bytecode => returned'.text = Outcome(kept.text.source)]_vars
=============================================================================
