---------------------------- MODULE ConfigParser ----------------------------
(***************************************************************************)
(* NginxConfigParser (config/config_parser.cc).  Parse calls ParseToken    *)
(* until the end of the file or an error; every round of its loop is one   *)
(* action.  The tree it builds is kept as the code keeps it, by address:   *)
(* blocks[b] is the statements_ of the b-th NginxConfig made, the root is  *)
(* 1, and config_stack holds the addresses of the blocks still open.       *)
(* A token is the pair of its first and last position in text.             *)
(***************************************************************************)
EXTENDS Integers, Sequences, FiniteSetsExt

CONSTANT Text      \* the files to parse, see TextAssumption

\* "a" stands for every character the parser does not name.
Char == {"{", "}", ";", "#", "\"", "'", " ", "\t", "\n", "\r", "a"}

ASSUME TextAssumption == Text \subseteq Seq(Char)

Whitespace == {" ", "\t", "\n", "\r"}

\* "\r" is not among them: the code lists "\t" twice.
EndsNormal == {" ", "\t", "\n", ";", "{", "}"}

VARIABLES text, pos, config_stack, blocks, last_token_type, result

vars == <<text, pos, config_stack, blocks, last_token_type, result>>

-------------------------------------------------------------------------------
(* ParseToken: the next token of text, and where the input goes on *)

\* The first position from p on with a character of C, or the end of the file.
First(p, C) == Min({q \in p .. Len(text) : text[q] \in C} \cup {Len(text) + 1})

AtEnd(p) == p > Len(text)

Token(type, first, last, next) ==
    [type |-> type, value |-> <<first, last>>, next |-> next]

\* A comment that ends with the file is no token, and neither is a word.
Eof == Token("EOF", 1, 0, Len(text) + 1)

Word(s) == LET e == First(s + 1, EndsNormal)
           IN IF AtEnd(e) THEN Eof ELSE Token("NORMAL", s, e - 1, e)

Quoted(s) == LET e == First(s + 1, {text[s]})
             IN IF AtEnd(e) THEN Token("ERROR", s, Len(text), e)
                            ELSE Token("NORMAL", s, e, e + 1)

Comment(s) == LET e == First(s + 1, {"\n", "\r"})
              IN IF AtEnd(e) THEN Eof ELSE Token("COMMENT", s, e - 1, e + 1)

ParseToken(p) ==
    LET s == First(p, Char \ Whitespace)
    IN IF AtEnd(s) THEN Eof
       ELSE CASE text[s] = "{"           -> Token("START_BLOCK", s, s, s + 1)
              [] text[s] = "}"           -> Token("END_BLOCK", s, s, s + 1)
              [] text[s] = ";"           -> Token("STATEMENT_END", s, s, s + 1)
              [] text[s] = "#"           -> Comment(s)
              [] text[s] \in {"\"", "'"} -> Quoted(s)
              [] OTHER                   -> Word(s)

-------------------------------------------------------------------------------
(* Parse *)

Init == /\ text \in Text
        /\ pos = 1
        /\ config_stack = <<1>>
        /\ blocks = << <<>> >>
        /\ last_token_type = "START"
        /\ result = "running"

Top == config_stack[Len(config_stack)]
Back(statements) == statements[Len(statements)]

\* ParseToken returns a token of this type.
Take(type) == /\ result = "running"
              /\ ParseToken(pos).type = type
              /\ pos' = ParseToken(pos).next

NextRound(type) == last_token_type' = type /\ UNCHANGED <<text, result>>

SkipComment == /\ Take("COMMENT")
               /\ UNCHANGED <<text, config_stack, blocks, last_token_type, result>>

\* Mutant of NewStatement: it goes into the root block.
StatementAtRoot ==
    /\ Take("NORMAL") /\ last_token_type # "NORMAL"
    /\ blocks' = [blocks EXCEPT ![1] =
                     Append(@, [tokens |-> <<ParseToken(pos).value>>, child |-> 0])]
    /\ NextRound("NORMAL")
    /\ UNCHANGED config_stack

\* A NORMAL token can come anywhere: it starts a statement or goes on with one.
NewStatement ==
    /\ Take("NORMAL") /\ last_token_type # "NORMAL"
    /\ blocks' = [blocks EXCEPT ![Top] =
                     Append(@, [tokens |-> <<ParseToken(pos).value>>, child |-> 0])]
    /\ NextRound("NORMAL")
    /\ UNCHANGED config_stack

\* Mutant of AddToken: the statement keeps its last token only.
ReplaceToken ==
    /\ Take("NORMAL") /\ last_token_type = "NORMAL"
    /\ blocks' = [blocks EXCEPT ![Top][Len(blocks[Top])].tokens =
                     <<ParseToken(pos).value>>]
    /\ NextRound("NORMAL")
    /\ UNCHANGED config_stack

AddToken ==
    /\ Take("NORMAL") /\ last_token_type = "NORMAL"
    /\ blocks' = [blocks EXCEPT ![Top][Len(blocks[Top])].tokens =
                     Append(@, ParseToken(pos).value)]
    /\ NextRound("NORMAL")
    /\ UNCHANGED config_stack

EndStatement ==
    /\ Take("STATEMENT_END") /\ last_token_type = "NORMAL"
    /\ NextRound("STATEMENT_END")
    /\ UNCHANGED <<config_stack, blocks>>

\* Mutant of StartBlock: a block may follow a block.
StartBlockAnywhere ==
    /\ Take("START_BLOCK") /\ last_token_type \in {"NORMAL", "END_BLOCK"}
    /\ blocks' = Append([blocks EXCEPT ![Top][Len(blocks[Top])].child = Len(blocks) + 1],
                        <<>>)
    /\ config_stack' = Append(config_stack, Len(blocks) + 1)
    /\ NextRound("START_BLOCK")

StartBlock ==
    /\ Take("START_BLOCK") /\ last_token_type = "NORMAL"
    /\ blocks' = Append([blocks EXCEPT ![Top][Len(blocks[Top])].child = Len(blocks) + 1],
                        <<>>)
    /\ config_stack' = Append(config_stack, Len(blocks) + 1)
    /\ NextRound("START_BLOCK")

\* Mutant of MayEndBlock: the root may be popped.
MayEndAnyBlock == last_token_type \in {"STATEMENT_END", "END_BLOCK", "START_BLOCK"}

MayEndBlock == /\ last_token_type \in {"STATEMENT_END", "END_BLOCK", "START_BLOCK"}
               /\ Len(config_stack) # 1

EndBlock ==
    /\ Take("END_BLOCK") /\ MayEndBlock
    /\ config_stack' = SubSeq(config_stack, 1, Len(config_stack) - 1)
    /\ NextRound("END_BLOCK")
    /\ UNCHANGED blocks

\* Mutant of EndOfFile: open blocks are forgiven.
EndOfFileUnbalanced ==
    /\ Take("EOF")
    /\ result' = IF last_token_type \in {"STATEMENT_END", "END_BLOCK", "START"}
                 THEN "true" ELSE "false"
    /\ UNCHANGED <<text, config_stack, blocks, last_token_type>>

EndOfFile ==
    /\ Take("EOF")
    /\ result' = IF /\ last_token_type \in {"STATEMENT_END", "END_BLOCK", "START"}
                    /\ Len(config_stack) = 1
                 THEN "true" ELSE "false"
    /\ UNCHANGED <<text, config_stack, blocks, last_token_type>>

\* Parse returns false.
BadTransition ==
    /\ \/ Take("ERROR")
       \/ Take("STATEMENT_END") /\ last_token_type # "NORMAL"
       \/ Take("START_BLOCK") /\ last_token_type # "NORMAL"
       \/ Take("END_BLOCK") /\ ~MayEndBlock
    /\ result' = "false"
    /\ UNCHANGED <<text, config_stack, blocks, last_token_type>>

Next == \/ SkipComment \/ NewStatement \/ AddToken \/ EndStatement \/ StartBlock
        \/ EndBlock \/ EndOfFile \/ BadTransition

Spec == Init /\ [][Next]_vars

-------------------------------------------------------------------------------
(* Properties *)

Statement == [tokens : Seq(Nat \X Nat), child : Nat]

\* Every variable has a value of its type.
TypeOK ==
    /\ text \in Seq(Char)
    /\ pos \in 1 .. Len(text) + 1
    /\ config_stack \in Seq(Nat) /\ config_stack # <<>>
    /\ blocks \in Seq(Seq(Statement))
    /\ last_token_type \in {"START", "NORMAL", "STATEMENT_END", "START_BLOCK", "END_BLOCK"}
    /\ result \in {"running", "true", "false"}

\* The raw pointers of Parse are right.  config_stack is a path through the tree:
\* every block on it is the child of the last statement of the block below, so
\* none dangles; and after a NORMAL token statements_.back() is there and has no
\* block yet that child_block_.reset would free.
StackIsPath ==
    /\ config_stack[1] = 1
    /\ \A k \in 1 .. Len(config_stack) :
          /\ config_stack[k] \in 1 .. Len(blocks)
          /\ k > 1 => LET below == blocks[config_stack[k - 1]]
                      IN below # <<>> /\ Back(below).child = config_stack[k]
    /\ last_token_type = "NORMAL" => blocks[Top] # <<>> /\ Back(blocks[Top]).child = 0

\* No block is lost: every block but the root is the child of one statement.
EveryBlockHasOneParent ==
    \A c \in 2 .. Len(blocks) :
        \E b \in 1 .. Len(blocks) : \E n \in 1 .. Len(blocks[b]) :
            /\ blocks[b][n].child = c
            /\ \A a \in 1 .. Len(blocks) : \A m \in 1 .. Len(blocks[a]) :
                  blocks[a][m].child = c => a = b /\ m = n
=============================================================================
