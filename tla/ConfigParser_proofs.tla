-------------------------- MODULE ConfigParser_proofs --------------------------
(***************************************************************************)
(* Proofs about ConfigParser: for every text, the raw pointers of Parse    *)
(* are right and every block it makes has exactly one parent; and, against *)
(* ConfigGrammar, Parse accepts exactly the files of the grammar and the   *)
(* tree of an accepted file is the file, token by token.                   *)
(***************************************************************************)
EXTENDS ConfigGrammar, SequenceTheorems, WellFoundedInduction, TLAPS

-------------------------------------------------------------------------------
(* ParseToken                                                                  *)

LEMMA MinIsIn ==
    ASSUME NEW S \in SUBSET Nat, S # {}
    PROVE  Min(S) \in S /\ \A y \in S : Min(S) <= y
<1>1. PICK x \in S : \A y \in S : ~(<<y, x>> \in OpToRel(<, Nat))
    BY NatLessThanWellFounded, WFMin
<1>2. \A y \in S : ~(y < x)
    BY <1>1 DEF OpToRel
<1>3. \A y \in S : x <= y
    BY <1>2
<1> QED BY <1>3 DEF Min

\* A search that finds nothing ends behind the text.
LEMMA FirstBound ==
    ASSUME TypeOK, NEW p \in Nat, NEW C, p <= Len(text) + 1
    PROVE  First(p, C) \in p .. Len(text) + 1
<1> DEFINE S == {q \in p .. Len(text) : text[q] \in C} \cup {Len(text) + 1}
<1>1. Len(text) \in Nat
    BY DEF TypeOK
<1>2. S \subseteq p .. Len(text) + 1 /\ S \in SUBSET Nat /\ S # {}
    <2>1. \A q \in p .. Len(text) : q \in p .. Len(text) + 1 /\ q \in Nat
        BY <1>1
    <2>2. Len(text) + 1 \in p .. Len(text) + 1 /\ Len(text) + 1 \in Nat
        BY <1>1
    <2> QED BY <2>1, <2>2
<1> QED BY <1>2, MinIsIn DEF First

TokenType == {"EOF", "NORMAL", "ERROR", "COMMENT", "START_BLOCK", "END_BLOCK", "STATEMENT_END"}

\* The tokens that can be found from p on.
TokenFrom(p) ==
    {t \in [type : TokenType, value : Nat \X Nat, next : 1 .. Len(text) + 1] :
        t.type \in {"EOF", "ERROR"} \/ p < t.next}

LEMMA TokenIsToken ==
    ASSUME NEW type \in TokenType, NEW first \in Nat, NEW last \in Nat,
           NEW next \in 1 .. Len(text) + 1, NEW p,
           type \in {"EOF", "ERROR"} \/ p < next
    PROVE  Token(type, first, last, next) \in TokenFrom(p)
BY DEF Token, TokenFrom

\* ParseToken stays within the text, and goes on in it.
LEMMA ParseTokenType ==
    ASSUME TypeOK, NEW p \in 1 .. Len(text) + 1
    PROVE  ParseToken(p) \in TokenFrom(p)
<1>1. Len(text) \in Nat /\ p \in Nat /\ 1 <= p /\ p <= Len(text) + 1
    BY DEF TypeOK
<1> DEFINE t == First(p, Char \ Whitespace)
<1>2. t \in p .. Len(text) + 1
    BY <1>1, FirstBound
<1>3. Eof \in TokenFrom(p)
    BY <1>1, TokenIsToken DEF Eof, TokenType
<1> HIDE DEF t
<1>4. ASSUME ~AtEnd(t)
      PROVE  /\ t \in 1 .. Len(text) /\ p <= t
             /\ \A C : First(t + 1, C) \in t + 1 .. Len(text) + 1
    <2>1. t \in 1 .. Len(text) /\ p <= t
        BY <1>1, <1>2, <1>4 DEF AtEnd
    <2> QED BY <1>1, <2>1, FirstBound
<1>5. ASSUME ~AtEnd(t) PROVE Word(t) \in TokenFrom(p)
    <2> DEFINE e == First(t + 1, EndsNormal)
    <2>1. t \in Nat /\ e \in t + 1 .. Len(text) + 1 /\ p <= t
        BY <1>4, <1>5
    <2>2. e - 1 \in Nat /\ e \in 1 .. Len(text) + 1 /\ p < e
        BY <1>1, <2>1
    <2> QED BY <1>3, <2>1, <2>2, TokenIsToken DEF Word, TokenType
<1>6. ASSUME ~AtEnd(t) PROVE Quoted(t) \in TokenFrom(p)
    <2> DEFINE e == First(t + 1, {text[t]})
    <2>1. t \in Nat /\ e \in t + 1 .. Len(text) + 1 /\ p <= t
        BY <1>4, <1>6
    <2>2. /\ e \in Nat /\ e \in 1 .. Len(text) + 1 /\ p < e + 1
          /\ ~AtEnd(e) => e + 1 \in 1 .. Len(text) + 1
        BY <1>1, <2>1 DEF AtEnd
    <2> QED BY <1>1, <2>1, <2>2, TokenIsToken DEF Quoted, TokenType
<1>7. ASSUME ~AtEnd(t) PROVE Comment(t) \in TokenFrom(p)
    <2> DEFINE e == First(t + 1, {"\n", "\r"})
    <2>1. t \in Nat /\ e \in t + 1 .. Len(text) + 1 /\ p <= t
        BY <1>4, <1>7
    <2>2. e - 1 \in Nat /\ p < e + 1 /\ (~AtEnd(e) => e + 1 \in 1 .. Len(text) + 1)
        BY <1>1, <2>1 DEF AtEnd
    <2> QED BY <1>3, <2>1, <2>2, TokenIsToken DEF Comment, TokenType
<1>8. ASSUME ~AtEnd(t), NEW type \in TokenType PROVE Token(type, t, t, t + 1) \in TokenFrom(p)
    <2>1. t \in Nat /\ t + 1 \in 1 .. Len(text) + 1 /\ p < t + 1
        BY <1>1, <1>4, <1>8
    <2> QED BY <2>1, TokenIsToken
<1>9. \A type \in {"START_BLOCK", "END_BLOCK", "STATEMENT_END"} : type \in TokenType
    BY DEF TokenType
<1> QED BY <1>3, <1>5, <1>6, <1>7, <1>8, <1>9 DEF ParseToken, t

-------------------------------------------------------------------------------
(* The tree                                                                    *)

\* Blocks are on the stack in the order they were made, so none is there twice.
StackIncreases ==
    \A j, k \in 1 .. Len(config_stack) : j < k => config_stack[j] < config_stack[k]

ChildrenExist ==
    \A b \in 1 .. Len(blocks) : \A n \in 1 .. Len(blocks[b]) :
        blocks[b][n].child \in 0 .. Len(blocks)

\* The n-th statement of block b is the one block c is the child of.
Parent(c, b, n) ==
    /\ blocks[b][n].child = c
    /\ \A a \in 1 .. Len(blocks) : \A m \in 1 .. Len(blocks[a]) :
          blocks[a][m].child = c => a = b /\ m = n

Tree == StackIsPath /\ StackIncreases /\ ChildrenExist /\ EveryBlockHasOneParent

IInv == TypeOK /\ Tree

\* What Top and back() refer to.
LEMMA TopExists ==
    IInv => /\ Len(config_stack) \in Nat \ {0} /\ Len(blocks) \in Nat
            /\ Top \in 1 .. Len(blocks) /\ blocks[Top] \in Seq(Statement)
            /\ Len(blocks[Top]) \in Nat
            /\ last_token_type = "NORMAL" =>
                  /\ Len(blocks[Top]) \in 1 .. Len(blocks[Top])
                  /\ blocks[Top][Len(blocks[Top])] \in Statement
                  /\ blocks[Top][Len(blocks[Top])].child = 0
<1> SUFFICES ASSUME IInv
             PROVE  /\ Len(config_stack) \in Nat \ {0} /\ Len(blocks) \in Nat
                    /\ Top \in 1 .. Len(blocks) /\ blocks[Top] \in Seq(Statement)
                    /\ Len(blocks[Top]) \in Nat
                    /\ last_token_type = "NORMAL" =>
                          /\ Len(blocks[Top]) \in 1 .. Len(blocks[Top])
                          /\ blocks[Top][Len(blocks[Top])] \in Statement
                          /\ blocks[Top][Len(blocks[Top])].child = 0
    OBVIOUS
<1>1. /\ Len(config_stack) \in Nat \ {0} /\ Len(blocks) \in Nat
    BY DEF IInv, TypeOK
<1>2. Top \in 1 .. Len(blocks)
    BY <1>1 DEF IInv, Tree, StackIsPath, Top
<1>3. blocks[Top] \in Seq(Statement) /\ Len(blocks[Top]) \in Nat
    BY <1>2 DEF IInv, TypeOK
<1>4. last_token_type = "NORMAL" => blocks[Top] # << >> /\ Back(blocks[Top]).child = 0
    BY DEF IInv, Tree, StackIsPath
<1> QED BY <1>1, <1>2, <1>3, <1>4 DEF Back

\* The addresses on the stack and what the blocks there hold.
LEMMA OnStack ==
    ASSUME IInv
    PROVE  /\ config_stack[1] = 1 /\ Top = config_stack[Len(config_stack)]
           /\ \A k \in 1 .. Len(config_stack) : config_stack[k] \in 1 .. Len(blocks)
BY DEF IInv, Tree, StackIsPath, Top

LEMMA OnPath ==
    ASSUME IInv, NEW k \in 1 .. Len(config_stack), k > 1
    PROVE  /\ k - 1 \in 1 .. Len(config_stack)
           /\ blocks[config_stack[k - 1]] # << >>
           /\ Back(blocks[config_stack[k - 1]]).child = config_stack[k]
<1>1. Len(config_stack) \in Nat
    BY TopExists
<1>2. k - 1 \in 1 .. Len(config_stack)
    BY <1>1
<1> QED BY <1>2 DEF IInv, Tree, StackIsPath

LEMMA BlocksAreStatements ==
    ASSUME IInv
    PROVE  /\ blocks \in Seq(Seq(Statement))
           /\ \A b \in 1 .. Len(blocks) : blocks[b] \in Seq(Statement) /\ Len(blocks[b]) \in Nat
<1>1. blocks \in Seq(Seq(Statement))
    BY DEF IInv, TypeOK
<1>2. ASSUME NEW b \in 1 .. Len(blocks)
      PROVE  blocks[b] \in Seq(Statement) /\ Len(blocks[b]) \in Nat
    <2>1. blocks[b] \in Seq(Statement)
        BY <1>1, <1>2
    <2> QED BY <2>1
<1> QED BY <1>1, <1>2

\* Only children matter to Tree.
LEMMA SameChildren ==
    ASSUME IInv, UNCHANGED config_stack, Len(blocks') = Len(blocks),
           \A b \in 1 .. Len(blocks) :
              /\ Len(blocks'[b]) = Len(blocks[b])
              /\ blocks'[b] \in Seq(Statement)
              /\ \A n \in 1 .. Len(blocks[b]) : blocks'[b][n].child = blocks[b][n].child,
           last_token_type' = "NORMAL" => last_token_type = "NORMAL"
    PROVE  Tree'
<1>1. /\ Len(config_stack) \in Nat \ {0} /\ Top \in 1 .. Len(blocks)
      /\ \A k \in 1 .. Len(config_stack) : config_stack[k] \in 1 .. Len(blocks)
      /\ \A b \in 1 .. Len(blocks) : blocks[b] \in Seq(Statement) /\ Len(blocks[b]) \in Nat
    BY TopExists, OnStack, BlocksAreStatements
<1>2. \A b \in 1 .. Len(blocks) :
         blocks[b] # << >> => /\ blocks'[b] # << >>
                              /\ Back(blocks'[b]).child = Back(blocks[b]).child
    BY <1>1 DEF Back
<1>3. StackIsPath'
    <2>1. Top' = Top
        BY DEF Top
    <2>2. config_stack[1] = 1 /\ \A k \in 1 .. Len(config_stack) :
             k > 1 => /\ k - 1 \in 1 .. Len(config_stack)
                      /\ blocks[config_stack[k - 1]] # << >>
                      /\ Back(blocks[config_stack[k - 1]]).child = config_stack[k]
        BY OnStack, OnPath
    <2>3. \A k \in 1 .. Len(config_stack) :
             k > 1 => /\ blocks'[config_stack[k - 1]] # << >>
                      /\ Back(blocks'[config_stack[k - 1]]).child = config_stack[k]
        BY <1>1, <1>2, <2>2
    <2>4. last_token_type' = "NORMAL" => blocks'[Top] # <<>> /\ Back(blocks'[Top]).child = 0
        BY <1>1, <1>2 DEF IInv, Tree, StackIsPath
    <2> QED BY <1>1, <2>1, <2>2, <2>3, <2>4 DEF StackIsPath, Back
<1>4. StackIncreases' /\ ChildrenExist'
    BY DEF IInv, Tree, StackIncreases, ChildrenExist
<1>5. EveryBlockHasOneParent'
    <2>1. SUFFICES ASSUME NEW c \in 2 .. Len(blocks')
                   PROVE  \E b \in 1 .. Len(blocks') : \E n \in 1 .. Len(blocks'[b]) : Parent(c, b, n)'
        BY DEF EveryBlockHasOneParent, Parent
    <2>2. PICK b \in 1 .. Len(blocks) : \E n \in 1 .. Len(blocks[b]) : Parent(c, b, n)
        BY <2>1 DEF IInv, Tree, EveryBlockHasOneParent, Parent
    <2>3. PICK n \in 1 .. Len(blocks[b]) : Parent(c, b, n)
        BY <2>2
    <2>4. b \in 1 .. Len(blocks') /\ n \in 1 .. Len(blocks'[b])
        BY <2>2, <2>3
    <2>5. Parent(c, b, n)'
        BY <2>3 DEF Parent
    <2> QED BY <2>4, <2>5
<1> QED BY <1>3, <1>4, <1>5 DEF Tree

\* NewStatement: the last block on the stack has one more statement, without a child.
LEMMA OneMoreStatement ==
    ASSUME IInv, UNCHANGED config_stack, NEW stm \in Statement, stm.child = 0,
           blocks' = [blocks EXCEPT ![Top] = Append(@, stm)],
           last_token_type # "NORMAL"
    PROVE  blocks' \in Seq(Seq(Statement)) /\ Tree'
<1>1. /\ Len(config_stack) \in Nat \ {0} /\ Top \in 1 .. Len(blocks) /\ Len(blocks) \in Nat
      /\ \A k \in 1 .. Len(config_stack) : config_stack[k] \in 1 .. Len(blocks)
      /\ \A b \in 1 .. Len(blocks) : blocks[b] \in Seq(Statement) /\ Len(blocks[b]) \in Nat
      /\ blocks \in Seq(Seq(Statement)) /\ config_stack[Len(config_stack)] = Top
    BY TopExists, OnStack, BlocksAreStatements
<1>2. /\ Len(blocks') = Len(blocks) /\ blocks' \in Seq(Seq(Statement))
      /\ blocks'[Top] = Append(blocks[Top], stm)
      /\ \A b \in 1 .. Len(blocks) : b # Top => blocks'[b] = blocks[b]
    BY <1>1
<1>3. /\ Len(blocks'[Top]) = Len(blocks[Top]) + 1
      /\ blocks'[Top][Len(blocks[Top]) + 1] = stm
      /\ \A n \in 1 .. Len(blocks[Top]) : blocks'[Top][n] = blocks[Top][n]
    BY <1>1, <1>2
<1>4. Back(blocks'[Top]) = stm /\ blocks'[Top] # << >>
    <2>1. Len(blocks[Top]) \in Nat
        BY <1>1
    <2>2. Len(blocks'[Top]) # 0
        BY <1>3, <2>1
    <2>3. Len(<< >>) = 0
        OBVIOUS
    <2>4. blocks'[Top] # << >>
        BY <2>2, <2>3
    <2> QED BY <1>3, <2>4 DEF Back
<1>5. \A b \in 1 .. Len(blocks) : \A n \in 1 .. Len(blocks[b]) :
         n \in 1 .. Len(blocks'[b]) /\ blocks'[b][n] = blocks[b][n]
    BY <1>1, <1>2, <1>3
<1>6. \A b \in 1 .. Len(blocks) : \A n \in 1 .. Len(blocks'[b]) :
         \/ blocks'[b][n].child = 0
         \/ n \in 1 .. Len(blocks[b]) /\ blocks'[b][n] = blocks[b][n]
    BY <1>1, <1>2, <1>3
<1>7. StackIsPath'
    <2>1. Top' = Top
        BY DEF Top
    <2>2. config_stack[1] = 1 /\ \A k \in 1 .. Len(config_stack) :
             k > 1 => /\ k - 1 \in 1 .. Len(config_stack)
                      /\ blocks[config_stack[k - 1]] # << >>
                      /\ Back(blocks[config_stack[k - 1]]).child = config_stack[k]
        BY OnStack, OnPath
    <2>3. \A k \in 1 .. Len(config_stack) : k > 1 => config_stack[k - 1] # Top
        <3>1. SUFFICES ASSUME NEW k \in 1 .. Len(config_stack), k > 1
                       PROVE  config_stack[k - 1] # Top
            OBVIOUS
        <3> DEFINE j == k - 1
        <3>2. /\ j \in 1 .. Len(config_stack) /\ j < Len(config_stack)
              /\ Len(config_stack) \in 1 .. Len(config_stack)
            BY <1>1, <3>1
        <3>3. config_stack[j] < Top
            <4> HIDE DEF j
            <4> QED BY <1>1, <3>2 DEF IInv, Tree, StackIncreases
        <3>4. config_stack[j] \in Nat /\ Top \in Nat
            BY <1>1, <3>2
        <3> QED BY <3>3, <3>4
    <2>4. \A k \in 1 .. Len(config_stack) :
             k > 1 => blocks'[config_stack[k - 1]] = blocks[config_stack[k - 1]]
        BY <1>1, <1>2, <2>2, <2>3
    <2>5. Back(blocks'[Top]).child = 0
        BY <1>4
    <2>6. ASSUME NEW k \in 1 .. Len(config_stack')
          PROVE  /\ config_stack'[k] \in 1 .. Len(blocks')
                 /\ k > 1 => /\ blocks'[config_stack'[k - 1]] # << >>
                             /\ Back(blocks'[config_stack'[k - 1]]).child = config_stack'[k]
        <3>1. k \in 1 .. Len(config_stack) /\ Len(blocks') = Len(blocks)
            BY <1>2, <2>6
        <3>2. config_stack'[k] \in 1 .. Len(blocks')
            BY <3>1, OnStack
        <3>3. ASSUME k > 1
              PROVE  /\ blocks'[config_stack[k - 1]] # << >>
                     /\ Back(blocks'[config_stack[k - 1]]).child = config_stack[k]
            <4>1. blocks'[config_stack[k - 1]] = blocks[config_stack[k - 1]]
                BY <2>4, <3>1, <3>3
            <4> QED BY <2>2, <3>1, <3>3, <4>1
        <3> QED BY <3>2, <3>3
    <2>7. blocks'[Top'] # << >> /\ Back(blocks'[Top']).child = 0
        BY <1>4, <2>1, <2>5
    <2> QED BY <2>2, <2>6, <2>7 DEF StackIsPath, Back
<1>8. StackIncreases' /\ ChildrenExist'
    <2>1. StackIncreases'
        BY DEF IInv, Tree, StackIncreases
    <2>2. SUFFICES ASSUME NEW b \in 1 .. Len(blocks), NEW n \in 1 .. Len(blocks'[b])
                   PROVE  blocks'[b][n].child \in 0 .. Len(blocks)
        BY <1>2, <2>1 DEF ChildrenExist
    <2>3. CASE blocks'[b][n].child = 0
        <3>1. 0 \in 0 .. Len(blocks)
            BY <1>1
        <3> QED BY <2>3, <3>1, Zenon
    <2>4. CASE n \in 1 .. Len(blocks[b]) /\ blocks'[b][n] = blocks[b][n]
        BY <2>4 DEF IInv, Tree, ChildrenExist
    <2> QED BY <1>6, <2>3, <2>4
<1>9. EveryBlockHasOneParent'
    <2>1. SUFFICES ASSUME NEW c \in 2 .. Len(blocks')
                   PROVE  \E b \in 1 .. Len(blocks') : \E n \in 1 .. Len(blocks'[b]) : Parent(c, b, n)'
        BY DEF EveryBlockHasOneParent, Parent
    <2>2. PICK b \in 1 .. Len(blocks) : \E n \in 1 .. Len(blocks[b]) : Parent(c, b, n)
        BY <1>2, <2>1 DEF IInv, Tree, EveryBlockHasOneParent, Parent
    <2>3. PICK n \in 1 .. Len(blocks[b]) : Parent(c, b, n)
        BY <2>2
    <2>4. b \in 1 .. Len(blocks') /\ n \in 1 .. Len(blocks'[b])
        BY <1>2, <1>5, <2>2, <2>3
    <2>5. c # 0
        BY <1>1, <1>2, <2>1
    <2>6. blocks'[b][n].child = c
        BY <1>5, <2>3 DEF Parent
    <2>7. ASSUME NEW a \in 1 .. Len(blocks'), NEW k \in 1 .. Len(blocks'[a]),
                 blocks'[a][k].child = c
          PROVE  a = b /\ k = n
        <3>1. a \in 1 .. Len(blocks)
            BY <1>2
        <3>2. k \in 1 .. Len(blocks[a]) /\ blocks[a][k].child = c
            BY <1>6, <2>5, <2>7, <3>1
        <3> QED BY <2>3, <3>1, <3>2 DEF Parent
    <2>8. Parent(c, b, n)'
        BY <2>6, <2>7 DEF Parent
    <2> QED BY <2>4, <2>8
<1> QED BY <1>2, <1>7, <1>8, <1>9 DEF Tree

LEMMA ChildIsSet ==
    ASSUME NEW stm \in Statement, NEW c \in Nat
    PROVE  /\ [stm EXCEPT !.child = c] \in Statement
           /\ [stm EXCEPT !.child = c].child = c
           /\ [stm EXCEPT !.child = c].tokens = stm.tokens
BY DEF Statement

LEMMA BlockIsAppended ==
    ASSUME NEW S, NEW s \in Seq(S), NEW e \in S
    PROVE  /\ Append(s, e) \in Seq(S) /\ Len(Append(s, e)) = Len(s) + 1
           /\ Append(s, e)[Len(s) + 1] = e
           /\ \A b \in 1 .. Len(s) : Append(s, e)[b] = s[b]
BY AppendProperties

\* The statements of the blocks after StartBlock: the new block is empty, the last
\* statement of the block on top has it as its child, nothing else changes.
LEMMA BlocksAfterStart ==
    ASSUME IInv, last_token_type = "NORMAL",
           blocks' = Append([blocks EXCEPT ![Top][Len(blocks[Top])].child = Len(blocks) + 1],
                            << >>)
    PROVE  /\ Len(blocks') = Len(blocks) + 1 /\ blocks' \in Seq(Seq(Statement))
           /\ blocks'[Len(blocks) + 1] = << >>
           /\ \A b \in 1 .. Len(blocks) : Len(blocks'[b]) = Len(blocks[b])
           /\ blocks'[Top][Len(blocks[Top])].child = Len(blocks) + 1
           /\ blocks'[Top][Len(blocks[Top])].tokens = blocks[Top][Len(blocks[Top])].tokens
           /\ \A b \in 1 .. Len(blocks) : b # Top => blocks'[b] = blocks[b]
           /\ \A n \in 1 .. Len(blocks[Top]) :
                 n # Len(blocks[Top]) => blocks'[Top][n] = blocks[Top][n]
<1> DEFINE m == Len(blocks[Top])
           stm == [blocks[Top][m] EXCEPT !.child = Len(blocks) + 1]
           top == [blocks[Top] EXCEPT ![m] = stm]
           mid == [blocks EXCEPT ![Top] = top]
<1>1. /\ Len(blocks) \in Nat /\ Top \in 1 .. Len(blocks) /\ blocks[Top] \in Seq(Statement)
      /\ m \in 1 .. m /\ m \in Nat /\ blocks[Top][m] \in Statement
      /\ blocks \in Seq(Seq(Statement))
    BY TopExists DEF IInv, TypeOK
<1>2. stm \in Statement /\ stm.child = Len(blocks) + 1 /\ stm.tokens = blocks[Top][m].tokens
    <2>1. Len(blocks) + 1 \in Nat
        BY <1>1
    <2> QED BY <1>1, <2>1, ChildIsSet
<1> HIDE DEF stm
<1>3. /\ top \in Seq(Statement) /\ Len(top) = m /\ top[m] = stm
      /\ \A n \in 1 .. m : n # m => top[n] = blocks[Top][n]
    BY <1>1, <1>2
<1> HIDE DEF top, m
<1>4. /\ mid \in Seq(Seq(Statement)) /\ Len(mid) = Len(blocks) /\ mid[Top] = top
      /\ \A b \in 1 .. Len(blocks) : b # Top => mid[b] = blocks[b]
    BY <1>1, <1>3
<1>5. blocks' = Append(mid, << >>)
    BY DEF mid, top, m, stm
<1> HIDE DEF mid
<1>6. << >> \in Seq(Statement)
    OBVIOUS
<1>7. /\ blocks' \in Seq(Seq(Statement)) /\ Len(blocks') = Len(blocks) + 1
      /\ blocks'[Len(blocks) + 1] = << >>
      /\ \A b \in 1 .. Len(blocks) : blocks'[b] = mid[b]
    <2>1. /\ Append(mid, << >>) \in Seq(Seq(Statement))
          /\ Len(Append(mid, << >>)) = Len(mid) + 1
          /\ Append(mid, << >>)[Len(mid) + 1] = << >>
          /\ \A b \in 1 .. Len(mid) : Append(mid, << >>)[b] = mid[b]
        BY <1>4, <1>6, BlockIsAppended
    <2> QED BY <1>4, <1>5, <2>1
<1>8. \A b \in 1 .. Len(blocks) : Len(blocks'[b]) = Len(blocks[b])
    BY <1>3, <1>4, <1>7 DEF m
<1> QED BY <1>1, <1>2, <1>3, <1>4, <1>7, <1>8 DEF m

\* StartBlock: the new block is the last one made, so it lies on top of the older ones.
LEMMA OneMoreBlock ==
    ASSUME IInv, last_token_type = "NORMAL", last_token_type' # "NORMAL",
           blocks' = Append([blocks EXCEPT ![Top][Len(blocks[Top])].child = Len(blocks) + 1],
                            << >>),
           config_stack' = Append(config_stack, Len(blocks) + 1)
    PROVE  Tree'
<1> DEFINE m == Len(blocks[Top])
           N == Len(blocks) + 1
<1>1. /\ Len(config_stack) \in Nat \ {0} /\ Len(blocks) \in Nat
      /\ Top \in 1 .. Len(blocks) /\ m \in 1 .. m /\ blocks[Top][m].child = 0
      /\ \A k \in 1 .. Len(config_stack) : config_stack[k] \in 1 .. Len(blocks)
      /\ config_stack[1] = 1 /\ config_stack \in Seq(Nat)
      /\ config_stack[Len(config_stack)] = Top
    BY TopExists DEF IInv, TypeOK, Tree, StackIsPath, Top
<1>2. /\ Len(blocks') = N /\ blocks'[N] = << >>
      /\ \A b \in 1 .. Len(blocks) : Len(blocks'[b]) = Len(blocks[b])
      /\ blocks'[Top][m].child = N
      /\ \A b \in 1 .. Len(blocks) : b # Top => blocks'[b] = blocks[b]
      /\ \A n \in 1 .. m : n # m => blocks'[Top][n] = blocks[Top][n]
    BY BlocksAfterStart
<1>3. /\ Len(config_stack') = Len(config_stack) + 1
      /\ config_stack'[Len(config_stack) + 1] = N
      /\ \A k \in 1 .. Len(config_stack) : config_stack'[k] = config_stack[k]
    BY <1>1
<1>4. \A b \in 1 .. Len(blocks') : \A n \in 1 .. Len(blocks'[b]) :
         \/ b = Top /\ n = m /\ blocks'[b][n].child = N
         \/ /\ b \in 1 .. Len(blocks) /\ n \in 1 .. Len(blocks[b]) /\ ~(b = Top /\ n = m)
            /\ blocks'[b][n].child = blocks[b][n].child
    <2>1. SUFFICES ASSUME NEW b \in 1 .. Len(blocks'), NEW n \in 1 .. Len(blocks'[b])
                   PROVE  \/ b = Top /\ n = m /\ blocks'[b][n].child = N
                          \/ /\ b \in 1 .. Len(blocks) /\ n \in 1 .. Len(blocks[b])
                             /\ ~(b = Top /\ n = m)
                             /\ blocks'[b][n].child = blocks[b][n].child
        OBVIOUS
    <2>2. b # N
        BY <1>2, <2>1
    <2>3. b \in 1 .. Len(blocks)
        <3>1. Len(blocks') = Len(blocks) + 1 /\ b # Len(blocks) + 1 /\ Len(blocks) \in Nat
            BY <1>1, <1>2, <2>2
        <3> QED BY <2>1, <3>1
    <2>4. n \in 1 .. Len(blocks[b])
        BY <1>2, <2>1, <2>3
    <2> QED BY <1>2, <2>3, <2>4
<1>5. \A b \in 1 .. Len(blocks) : \A n \in 1 .. Len(blocks[b]) :
         ~(b = Top /\ n = m) => blocks'[b][n].child = blocks[b][n].child
    BY <1>2
<1>6. StackIsPath'
    <2>1. \A k \in 1 .. Len(config_stack) :
             k > 1 => /\ blocks'[config_stack[k - 1]] # << >>
                      /\ Back(blocks'[config_stack[k - 1]]).child = config_stack[k]
        <3>1. SUFFICES ASSUME NEW k \in 1 .. Len(config_stack), k > 1
                       PROVE  /\ blocks'[config_stack[k - 1]] # << >>
                              /\ Back(blocks'[config_stack[k - 1]]).child = config_stack[k]
            OBVIOUS
        <3> DEFINE j == k - 1
        <3>2. /\ j \in 1 .. Len(config_stack) /\ j < Len(config_stack)
              /\ Len(config_stack) \in 1 .. Len(config_stack)
            BY <1>1, <3>1
        <3>3. blocks[config_stack[j]] # << >> /\ Back(blocks[config_stack[j]]).child = config_stack[k]
            BY <3>1 DEF IInv, Tree, StackIsPath
        <3> HIDE DEF j
        <3>4. config_stack[j] < Top
            BY <1>1, <3>2 DEF IInv, Tree, StackIncreases
        <3>5. config_stack[j] \in 1 .. Len(blocks) /\ config_stack[j] # Top
            BY <1>1, <3>2, <3>4
        <3>6. blocks'[config_stack[j]] = blocks[config_stack[j]]
            BY <1>2, <3>5
        <3> QED BY <3>3, <3>6 DEF Back, j
    <2>2. blocks'[Top] # << >> /\ Back(blocks'[Top]).child = N
        <3>1. Len(blocks'[Top]) = m /\ m # 0 /\ Len(<< >>) = 0
            BY <1>1, <1>2
        <3> QED BY <1>2, <3>1 DEF Back
    <2>3. \A k \in 1 .. Len(config_stack') : config_stack'[k] \in 1 .. Len(blocks')
        BY <1>1, <1>2, <1>3
    <2>4. ASSUME NEW k \in 1 .. Len(config_stack'), k > 1
          PROVE  /\ blocks'[config_stack'[k - 1]] # << >>
                 /\ Back(blocks'[config_stack'[k - 1]]).child = config_stack'[k]
        <3>1. CASE k \in 1 .. Len(config_stack)
            <4>1. k - 1 \in 1 .. Len(config_stack)
                BY <1>1, <2>4, <3>1
            <4>2. config_stack'[k - 1] = config_stack[k - 1] /\ config_stack'[k] = config_stack[k]
                BY <1>3, <3>1, <4>1
            <4> HIDE DEF N, m
            <4> QED BY <2>1, <2>4, <3>1, <4>2
        <3>2. CASE k = Len(config_stack) + 1
            <4>1. k - 1 = Len(config_stack) /\ Len(config_stack) \in 1 .. Len(config_stack)
                BY <1>1, <3>2
            <4>2. config_stack'[k - 1] = Top /\ config_stack'[k] = N
                BY <1>1, <1>3, <3>2, <4>1
            <4> HIDE DEF N, m
            <4> QED BY <2>2, <4>2
        <3>3. k \in 1 .. Len(config_stack) \/ k = Len(config_stack) + 1
            <4>1. Len(config_stack') = Len(config_stack) + 1 /\ Len(config_stack) \in Nat
                BY <1>1, <1>3
            <4> QED BY <2>4, <4>1
        <3> QED BY <3>1, <3>2, <3>3
    <2>5. config_stack'[1] = 1
        BY <1>1, <1>3
    <2> HIDE DEF N, m
    <2> QED BY <2>3, <2>4, <2>5 DEF StackIsPath, Back
<1>7. StackIncreases'
    <2>1. SUFFICES ASSUME NEW j \in 1 .. Len(config_stack'), NEW k \in 1 .. Len(config_stack'), j < k
                   PROVE  config_stack'[j] < config_stack'[k]
        BY DEF StackIncreases
    <2>2. j \in 1 .. Len(config_stack)
        BY <1>1, <1>3, <2>1
    <2>3. CASE k \in 1 .. Len(config_stack)
        BY <1>3, <2>1, <2>2, <2>3 DEF IInv, Tree, StackIncreases
    <2>4. CASE k = Len(config_stack) + 1
        BY <1>1, <1>3, <2>2, <2>4
    <2> QED BY <1>1, <1>3, <2>3, <2>4
<1>8. \A b \in 1 .. Len(blocks) : \A n \in 1 .. Len(blocks[b]) :
         blocks[b][n].child \in 0 .. Len(blocks)
    BY DEF IInv, Tree, ChildrenExist
<1>9. ChildrenExist'
    <2>1. SUFFICES ASSUME NEW b \in 1 .. Len(blocks'), NEW n \in 1 .. Len(blocks'[b])
                   PROVE  blocks'[b][n].child \in 0 .. Len(blocks')
        BY DEF ChildrenExist
    <2>2. CASE blocks'[b][n].child = N
        <3>1. N \in 0 .. N
            BY <1>1
        <3> QED BY <1>2, <2>2, <3>1
    <2>3. CASE /\ b \in 1 .. Len(blocks) /\ n \in 1 .. Len(blocks[b])
               /\ blocks'[b][n].child = blocks[b][n].child
        <3>1. blocks[b][n].child \in 0 .. Len(blocks)
            BY <1>8, <2>3
        <3>2. Len(blocks) \in Nat /\ Len(blocks') = Len(blocks) + 1
            BY <1>1, <1>2
        <3> QED BY <2>3, <3>1, <3>2
    <2> QED BY <1>4, <2>2, <2>3
<1>10. EveryBlockHasOneParent'
    <2>1. SUFFICES ASSUME NEW c \in 2 .. Len(blocks')
                   PROVE  \E b \in 1 .. Len(blocks') : \E n \in 1 .. Len(blocks'[b]) : Parent(c, b, n)'
        BY DEF EveryBlockHasOneParent, Parent
    <2>2. CASE c = N
        <3>1. PICK t \in 1 .. Len(blocks) : t = Top
            BY <1>1
        <3>2. PICK last \in 1 .. m : last = m
            BY <1>1
        <3>3. t \in 1 .. Len(blocks') /\ last \in 1 .. Len(blocks'[t])
            BY <1>1, <1>2, <3>1, <3>2
        <3>4. \A a \in 1 .. Len(blocks') : \A k \in 1 .. Len(blocks'[a]) :
                 blocks'[a][k].child = c => a = t /\ k = last
            <4>1. SUFFICES ASSUME NEW a \in 1 .. Len(blocks'), NEW k \in 1 .. Len(blocks'[a]),
                                  blocks'[a][k].child = c, ~(a = Top /\ k = m)
                           PROVE  FALSE
                BY <3>1, <3>2
            <4>2. /\ a \in 1 .. Len(blocks) /\ k \in 1 .. Len(blocks[a])
                  /\ blocks[a][k].child = N
                BY <1>4, <2>2, <4>1
            <4>3. blocks[a][k].child \in 0 .. Len(blocks)
                BY <1>8, <4>2
            <4>4. Len(blocks) \in Nat
                BY <1>1
            <4> QED BY <4>2, <4>3, <4>4
        <3>5. Parent(c, t, last)'
            BY <1>2, <2>2, <3>1, <3>2, <3>4 DEF Parent
        <3> QED BY <3>3, <3>5
    <2>3. CASE c \in 2 .. Len(blocks)
        <3>1. PICK b \in 1 .. Len(blocks) : \E n \in 1 .. Len(blocks[b]) : Parent(c, b, n)
            BY <2>3 DEF IInv, Tree, EveryBlockHasOneParent, Parent
        <3>2. PICK n \in 1 .. Len(blocks[b]) : Parent(c, b, n)
            BY <3>1
        <3>3. b \in 1 .. Len(blocks') /\ n \in 1 .. Len(blocks'[b])
            BY <1>1, <1>2
        <3>4. ~(b = Top /\ n = m) /\ blocks'[b][n].child = c
            BY <1>1, <1>5, <2>3, <3>2 DEF Parent
        <3>5. \A a \in 1 .. Len(blocks') : \A k \in 1 .. Len(blocks'[a]) :
                 blocks'[a][k].child = c => a = b /\ k = n
            <4>1. SUFFICES ASSUME NEW a \in 1 .. Len(blocks'), NEW k \in 1 .. Len(blocks'[a]),
                                  blocks'[a][k].child = c
                           PROVE  a = b /\ k = n
                OBVIOUS
            <4>2. c # N
                BY <1>1, <2>3
            <4>3. /\ a \in 1 .. Len(blocks) /\ k \in 1 .. Len(blocks[a])
                  /\ blocks[a][k].child = c
                BY <1>4, <4>1, <4>2
            <4> QED BY <3>2, <4>3 DEF Parent
        <3>6. Parent(c, b, n)'
            BY <3>4, <3>5 DEF Parent
        <3> QED BY <3>3, <3>6
    <2>4. c = N \/ c \in 2 .. Len(blocks)
        <3>1. Len(blocks) \in Nat /\ Len(blocks') = Len(blocks) + 1
            BY <1>1, <1>2
        <3> QED BY <2>1, <3>1
    <2> QED BY <2>2, <2>3, <2>4
<1> QED BY <1>6, <1>7, <1>9, <1>10 DEF Tree

\* EndBlock: what is left of the stack is still a path.
LEMMA OneLessOpen ==
    ASSUME IInv, UNCHANGED blocks, Len(config_stack) # 1, last_token_type' # "NORMAL",
           config_stack' = SubSeq(config_stack, 1, Len(config_stack) - 1)
    PROVE  config_stack' \in Seq(Nat) /\ config_stack' # << >> /\ Tree'
<1>1. /\ Len(config_stack) \in Nat \ {0} /\ Len(blocks) \in Nat
      /\ config_stack \in Seq(Nat)
    BY TopExists DEF IInv, TypeOK
<1>2. /\ config_stack' \in Seq(Nat) /\ Len(config_stack') = Len(config_stack) - 1
      /\ \A k \in 1 .. Len(config_stack') : config_stack'[k] = config_stack[k]
    <2>1. PICK n \in Nat \ {0} : n = Len(config_stack) - 1
        <3>1. Len(config_stack) - 1 \in Nat \ {0}
            <4>1. \A x \in Nat \ {0} : x # 1 => x - 1 \in Nat \ {0}
                OBVIOUS
            <4> QED BY <1>1, <4>1
        <3> QED BY <3>1
    <2>2. \A k \in 1 .. n : config_stack[k] \in Nat
        BY <1>1, <2>1
    <2>3. config_stack' = SubSeq(config_stack, 1, n)
        BY <2>1
    <2>4. /\ SubSeq(config_stack, 1, n) \in Seq(Nat)
          /\ Len(SubSeq(config_stack, 1, n)) = IF 1 <= n THEN n - 1 + 1 ELSE 0
          /\ \A k \in 1 .. n - 1 + 1 : SubSeq(config_stack, 1, n)[k] = config_stack[1 + k - 1]
        BY <2>2, SubSeqProperties
    <2>5. Len(config_stack') = n /\ 1 .. n - 1 + 1 = 1 .. n
        BY <2>1, <2>3, <2>4
    <2>6. \A k \in 1 .. n : config_stack'[k] = config_stack[k]
        <3>1. \A k \in 1 .. n : 1 + k - 1 = k
            BY <2>1
        <3> QED BY <2>3, <2>4, <2>5, <3>1
    <2> QED BY <2>1, <2>3, <2>4, <2>5, <2>6
<1>3. Len(config_stack') \in Nat \ {0} /\ config_stack' # << >>
    <2>1. Len(config_stack') \in Nat \ {0}
        BY <1>1, <1>2
    <2>2. Len(<< >>) = 0
        OBVIOUS
    <2>3. config_stack' # << >>
        BY <2>1, <2>2
    <2> QED BY <2>1, <2>3
<1>4. 1 .. Len(config_stack') \subseteq 1 .. Len(config_stack)
    BY <1>1, <1>2
<1>5. \A k \in 1 .. Len(config_stack') : k > 1 => config_stack'[k - 1] = config_stack[k - 1]
    BY <1>2, <1>3
<1>6. StackIsPath'
    <2>1. config_stack'[1] = 1
        <3>1. 1 \in 1 .. Len(config_stack')
            BY <1>3
        <3> QED BY <1>2, <3>1 DEF IInv, Tree, StackIsPath
    <2> QED BY <1>2, <1>4, <1>5, <2>1 DEF IInv, Tree, StackIsPath, Back
<1>7. StackIncreases'
    BY <1>2, <1>4 DEF IInv, Tree, StackIncreases
<1>8. ChildrenExist' /\ EveryBlockHasOneParent'
    BY DEF IInv, Tree, ChildrenExist, EveryBlockHasOneParent
<1> QED BY <1>2, <1>3, <1>6, <1>7, <1>8 DEF Tree

LEMMA TokensAreSet ==
    ASSUME NEW stm \in Statement, NEW v \in Nat \X Nat
    PROVE  /\ [stm EXCEPT !.tokens = Append(@, v)] \in Statement
           /\ [stm EXCEPT !.tokens = Append(@, v)].child = stm.child
<1>1. stm.tokens \in Seq(Nat \X Nat)
    BY DEF Statement
<1>2. Append(stm.tokens, v) \in Seq(Nat \X Nat)
    BY <1>1, AppendProperties
<1> QED BY <1>2 DEF Statement

\* AddToken: the last statement has one more token, and the child it had.
LEMMA BlocksAfterAdd ==
    ASSUME IInv, last_token_type = "NORMAL", NEW v \in Nat \X Nat,
           blocks' = [blocks EXCEPT ![Top][Len(blocks[Top])].tokens = Append(@, v)]
    PROVE  /\ Len(blocks') = Len(blocks) /\ blocks' \in Seq(Seq(Statement))
           /\ \A b \in 1 .. Len(blocks) :
                 /\ Len(blocks'[b]) = Len(blocks[b]) /\ blocks'[b] \in Seq(Statement)
                 /\ \A n \in 1 .. Len(blocks[b]) : blocks'[b][n].child = blocks[b][n].child
<1> DEFINE m == Len(blocks[Top])
           stm == [blocks[Top][m] EXCEPT !.tokens = Append(@, v)]
           top == [blocks[Top] EXCEPT ![m] = stm]
<1>1. /\ Len(blocks) \in Nat /\ Top \in 1 .. Len(blocks) /\ blocks[Top] \in Seq(Statement)
      /\ m \in 1 .. m /\ m \in Nat /\ blocks[Top][m] \in Statement
      /\ blocks \in Seq(Seq(Statement))
    BY TopExists DEF IInv, TypeOK
<1>2. stm \in Statement /\ stm.child = blocks[Top][m].child
    BY <1>1, TokensAreSet
<1>3. blocks' = [blocks EXCEPT ![Top] = top]
    OBVIOUS
<1> HIDE DEF stm
<1>4. /\ top \in Seq(Statement) /\ Len(top) = m
      /\ \A n \in 1 .. m : top[n].child = blocks[Top][n].child
    BY <1>1, <1>2
<1> HIDE DEF top
<1>5. /\ blocks' \in Seq(Seq(Statement)) /\ Len(blocks') = Len(blocks) /\ blocks'[Top] = top
      /\ \A b \in 1 .. Len(blocks) : b # Top => blocks'[b] = blocks[b]
    BY <1>1, <1>3, <1>4
<1>6. \A b \in 1 .. Len(blocks) : blocks[b] \in Seq(Statement)
    BY <1>1
<1> QED BY <1>4, <1>5, <1>6

-------------------------------------------------------------------------------
(* Every step                                                                  *)

LEMMA InitInvariant == Init => IInv
<1> SUFFICES ASSUME Init PROVE IInv
    OBVIOUS
<1>1. text \in Seq(Char)
    BY TextAssumption DEF Init
<1>2. /\ Len(text) \in Nat /\ config_stack = <<1>> /\ blocks = << << >> >> /\ pos = 1
      /\ Len(blocks) = 1 /\ Len(config_stack) = 1 /\ blocks[1] = << >> /\ config_stack[1] = 1
    BY <1>1 DEF Init
<1>3. << << >> >> \in Seq(Seq(Statement)) /\ <<1>> \in Seq(Nat) /\ <<1>> # << >>
    OBVIOUS
<1>4. TypeOK
    BY <1>1, <1>2, <1>3 DEF Init, TypeOK
<1>5. Tree
    BY <1>2 DEF Init, Tree, StackIsPath, StackIncreases, ChildrenExist, EveryBlockHasOneParent
<1> QED BY <1>4, <1>5 DEF IInv

\* Every action but the last two moves on in the same text.
LEMMA TakeMoves ==
    ASSUME IInv, NEW type, Take(type)
    PROVE  pos' \in 1 .. Len(text) + 1 /\ ParseToken(pos).value \in Nat \X Nat
<1>1. TypeOK /\ pos \in 1 .. Len(text) + 1
    BY DEF IInv, TypeOK
<1> QED BY <1>1, ParseTokenType DEF Take, TokenFrom

LEMMA StepInvariant == IInv /\ [Next]_vars => IInv'
<1> SUFFICES ASSUME IInv, [Next]_vars PROVE IInv'
    OBVIOUS
<1>t. /\ text \in Seq(Char) /\ config_stack \in Seq(Nat) /\ config_stack # << >>
      /\ blocks \in Seq(Seq(Statement))
      /\ \A b \in 1 .. Len(blocks) : blocks[b] \in Seq(Statement)
    BY DEF IInv, TypeOK
<1>s. UNCHANGED <<config_stack, blocks>> /\ (last_token_type' = "NORMAL" => last_token_type = "NORMAL")
      => Tree'
    BY <1>t, SameChildren
<1>1. CASE SkipComment
    <2>1. TypeOK'
        BY <1>1, TakeMoves DEF SkipComment, IInv, TypeOK
    <2> QED BY <1>1, <1>s, <2>1 DEF SkipComment, IInv
<1>2. CASE NewStatement
    <2> DEFINE stm == [tokens |-> <<ParseToken(pos).value>>, child |-> 0]
    <2>1. ParseToken(pos).value \in Nat \X Nat /\ pos' \in 1 .. Len(text) + 1
        BY <1>2, TakeMoves DEF NewStatement
    <2>2. stm \in Statement /\ stm.child = 0
        BY <2>1 DEF Statement
    <2>3. blocks' = [blocks EXCEPT ![Top] = Append(@, stm)]
        BY <1>2 DEF NewStatement
    <2> HIDE DEF stm
    <2>4. blocks' \in Seq(Seq(Statement)) /\ Tree'
        BY <1>2, <2>2, <2>3, OneMoreStatement DEF NewStatement
    <2>5. TypeOK'
        BY <1>2, <1>t, <2>1, <2>4 DEF NewStatement, NextRound, IInv, TypeOK
    <2> QED BY <2>4, <2>5 DEF IInv
<1>3. CASE AddToken
    <2> DEFINE v == ParseToken(pos).value
    <2>1. v \in Nat \X Nat /\ pos' \in 1 .. Len(text) + 1
        BY <1>3, TakeMoves DEF AddToken
    <2>2. blocks' = [blocks EXCEPT ![Top][Len(blocks[Top])].tokens = Append(@, v)]
        BY <1>3 DEF AddToken
    <2> HIDE DEF v
    <2>3. /\ Len(blocks') = Len(blocks) /\ blocks' \in Seq(Seq(Statement))
          /\ \A b \in 1 .. Len(blocks) :
                 /\ Len(blocks'[b]) = Len(blocks[b]) /\ blocks'[b] \in Seq(Statement)
                 /\ \A n \in 1 .. Len(blocks[b]) : blocks'[b][n].child = blocks[b][n].child
        BY <1>3, <2>1, <2>2, BlocksAfterAdd DEF AddToken
    <2>4. Tree'
        BY <1>3, <2>3, SameChildren DEF AddToken
    <2>5. TypeOK'
        BY <1>3, <1>t, <2>1, <2>3 DEF AddToken, NextRound, IInv, TypeOK
    <2> QED BY <2>4, <2>5 DEF IInv
<1>4. CASE EndStatement
    <2>1. TypeOK'
        BY <1>4, TakeMoves DEF EndStatement, NextRound, IInv, TypeOK
    <2> QED BY <1>4, <1>s, <2>1 DEF EndStatement, NextRound, IInv
<1>5. CASE StartBlock
    <2>1. pos' \in 1 .. Len(text) + 1
        BY <1>5, TakeMoves DEF StartBlock
    <2>2. Len(blocks) + 1 \in Nat
        BY <1>t
    <2>3. config_stack' \in Seq(Nat) /\ config_stack' # << >>
        <3>1. config_stack \in Seq(Nat)
            BY <1>t DEF TypeOK
        <3>2. config_stack' = Append(config_stack, Len(blocks) + 1)
            BY <1>5 DEF StartBlock
        <3>3. Append(config_stack, Len(blocks) + 1) \in Seq(Nat)
            BY <2>2, <3>1, AppendProperties
        <3>4. Append(config_stack, Len(blocks) + 1) # << >>
            BY <2>2, <3>1, AppendProperties
        <3> QED BY <3>2, <3>3, <3>4
    <2>4. blocks' \in Seq(Seq(Statement))
        BY <1>5, BlocksAfterStart DEF StartBlock
    <2>5. Tree'
        BY <1>5, OneMoreBlock DEF StartBlock, NextRound
    <2>6. TypeOK'
        BY <1>5, <1>t, <2>1, <2>3, <2>4 DEF StartBlock, NextRound, IInv, TypeOK
    <2> QED BY <2>5, <2>6 DEF IInv
<1>6. CASE EndBlock
    <2>1. pos' \in 1 .. Len(text) + 1
        BY <1>6, TakeMoves DEF EndBlock
    <2>2. config_stack' \in Seq(Nat) /\ config_stack' # << >> /\ Tree'
        BY <1>6, OneLessOpen DEF EndBlock, MayEndBlock, NextRound
    <2>3. TypeOK'
        BY <1>6, <1>t, <2>1, <2>2 DEF EndBlock, NextRound, IInv, TypeOK
    <2> QED BY <2>2, <2>3 DEF IInv
<1>7. CASE EndOfFile
    <2>1. TypeOK'
        BY <1>7, TakeMoves DEF EndOfFile, IInv, TypeOK
    <2> QED BY <1>7, <1>s, <2>1 DEF EndOfFile, IInv
<1>8. CASE BadTransition
    <2>1. pos' \in 1 .. Len(text) + 1
        BY <1>8, TakeMoves DEF BadTransition
    <2>2. TypeOK'
        BY <1>8, <2>1 DEF BadTransition, IInv, TypeOK
    <2> QED BY <1>8, <1>s, <2>2 DEF BadTransition, IInv
<1>9. CASE UNCHANGED vars
    <2>1. TypeOK'
        BY <1>9 DEF vars, IInv, TypeOK
    <2> QED BY <1>9, <1>s, <2>1 DEF vars, IInv
<1> QED BY <1>1, <1>2, <1>3, <1>4, <1>5, <1>6, <1>7, <1>8, <1>9 DEF Next

\* The invariant holds for every set of texts.
THEOREM InductiveInvariant == Spec => []IInv
BY InitInvariant, StepInvariant, PTL DEF Spec

\* Every variable of Parse has its type.
THEOREM TypeCorrect == Spec => []TypeOK
<1>1. IInv => TypeOK
    BY DEF IInv
<1> QED BY <1>1, InductiveInvariant, PTL

\* For every text the pointers of config_stack form a path through the tree, and
\* back() and child_block_.reset are used only where Parse may use them.
THEOREM PointersAreRight == Spec => []StackIsPath
<1>1. IInv => StackIsPath
    BY DEF IInv, Tree
<1> QED BY <1>1, InductiveInvariant, PTL

\* For every text each block Parse makes is the child of exactly one statement.
THEOREM OneParent == Spec => []EveryBlockHasOneParent
<1>1. IInv => EveryBlockHasOneParent
    BY DEF IInv, Tree
<1> QED BY <1>1, InductiveInvariant, PTL

\* Going down: what holds at i when it holds above i holds everywhere.
LEMMA Downward ==
    ASSUME NEW n \in Nat, NEW S,
           \A i \in 0 .. n : (\A j \in i + 1 .. n : j \in S) => i \in S
    PROVE  0 .. n \subseteq S
<1> DEFINE T == {k \in 0 .. n : n - k \notin S}
<1>1. ASSUME NEW i \in 0 .. n, i \notin S PROVE FALSE
    <2>1. PICK k \in 0 .. n : i = n - k
        <3>1. n - i \in 0 .. n /\ i = n - (n - i)
            OBVIOUS
        <3> QED BY <3>1
    <2>2. k \in T
        BY <1>1, <2>1
    <2>3. PICK m \in T : \A y \in T : m <= y
        <3>1. \A y \in T : y \in Nat
            OBVIOUS
        <3> HIDE DEF T
        <3>2. T \in SUBSET Nat /\ T # {}
            BY <2>2, <3>1
        <3> QED BY <3>2, MinIsIn
    <2>4. PICK c \in 0 .. n : c = n - m /\ c \notin S
        BY <2>3
    <2>5. ASSUME NEW j \in c + 1 .. n PROVE j \in S
        <3>1. n - j \in 0 .. n /\ n - (n - j) = j /\ ~(m <= n - j)
            BY <2>3, <2>4
        <3>2. n - j \notin T
            BY <2>3, <3>1
        <3> QED BY <3>1, <3>2
    <2> HIDE DEF T
    <2> QED BY <2>4, <2>5
<1>2. \A i \in 0 .. n : i \in S
    <2> HIDE DEF T
    <2> QED BY <1>1
<1> QED BY <1>2

-------------------------------------------------------------------------------
(* The tokens of the file                                                      *)

\* What TokensFrom is at p, given the tokens f after p.
TokensAt(f, p) ==
    LET t == ParseToken(p)
    IN IF t.type \in {"EOF", "ERROR"} THEN <<t>>
       ELSE IF t.type = "COMMENT" THEN f[t.next]
       ELSE <<t>> \o f[t.next]

LEMMA TokensAtAgree ==
    ASSUME TypeOK, NEW p \in 1 .. Len(text) + 1, NEW f, NEW g,
           \A q \in 1 .. Len(text) + 1 : p < q => f[q] = g[q]
    PROVE  TokensAt(f, p) = TokensAt(g, p)
<1>1. ParseToken(p) \in TokenFrom(p)
    BY ParseTokenType
<1>2. ParseToken(p).type \in {"EOF", "ERROR"} \/ f[ParseToken(p).next] = g[ParseToken(p).next]
    BY <1>1 DEF TokenFrom
<1> QED BY <1>2 DEF TokensAt

LEMMA TokensFromExists ==
    ASSUME TypeOK
    PROVE  \E f : f = [p \in 1 .. Len(text) + 1 |-> TokensAt(f, p)]
<1> DEFINE P == 1 .. Len(text) + 1
           Right(i, f) == f = [p \in P |-> f[p]] /\ \A p \in P : i <= p => f[p] = TokensAt(f, p)
           n == Len(text) + 2
           S == {i \in 0 .. n : \E f : Right(i, f)}
<1>1. n \in Nat /\ Len(text) \in Nat
    BY DEF TypeOK
<1>2. ASSUME NEW i \in 0 .. n, \A j \in i + 1 .. n : j \in S
      PROVE  i \in S
    <2>1. CASE i = n
        <3> DEFINE f == [p \in P |-> << >>]
        <3>1. Right(i, f)
            BY <1>1, <2>1
        <3> HIDE DEF Right
        <3>2. \E h : Right(i, h)
            BY <3>1, Zenon
        <3> QED BY <1>2, <3>2
    <2>2. CASE i # n
        <3>1. i + 1 \in S
            BY <1>1, <1>2, <2>2
        <3>2. PICK f : Right(i + 1, f)
            BY <3>1
        <3> DEFINE g == [p \in P |-> IF p = i THEN TokensAt(f, p) ELSE f[p]]
        <3>3. \A p \in P : i + 1 <= p => g[p] = f[p]
            BY <1>1
        <3>4. ASSUME NEW p \in P, i <= p PROVE g[p] = TokensAt(g, p)
            <4>1. g[p] = TokensAt(f, p)
                BY <1>1, <3>2, <3>4
            <4>2. \A q \in P : p < q => f[q] = g[q]
                BY <1>1, <3>3, <3>4
            <4> HIDE DEF g
            <4>3. TokensAt(f, p) = TokensAt(g, p)
                BY <4>2, TokensAtAgree
            <4> QED BY <4>1, <4>3
        <3>5. g = [p \in P |-> g[p]]
            OBVIOUS
        <3> HIDE DEF g
        <3>6. Right(i, g)
            BY <3>4, <3>5
        <3> HIDE DEF Right
        <3>7. \E h : Right(i, h)
            BY <3>6, Zenon
        <3> QED BY <1>2, <3>7
    <2> QED BY <2>1, <2>2
<1>3. 0 \in S
    <2> HIDE DEF S, n
    <2>1. 0 .. n \subseteq S
        BY <1>1, <1>2, Downward
    <2> QED BY <1>1, <2>1
<1>4. PICK f : Right(0, f)
    BY <1>3
<1>5. f = [p \in P |-> TokensAt(f, p)]
    <2>1. \A p \in P : f[p] = TokensAt(f, p)
        BY <1>1, <1>4
    <2> QED BY <1>4, <2>1
<1> QED BY <1>5, Zenon

\* TokensFrom is what its definition says.
LEMMA TokensFromIs ==
    ASSUME TypeOK, NEW p \in 1 .. Len(text) + 1
    PROVE  TokensFrom[p] = TokensAt(TokensFrom, p)
<1> DEFINE lex == CHOOSE f : f = [q \in 1 .. Len(text) + 1 |-> TokensAt(f, q)]
<1>1. lex = [q \in 1 .. Len(text) + 1 |-> TokensAt(lex, q)]
    BY TokensFromExists, Zenon
<1>2. TokensFrom = lex
    BY Zenon DEF TokensFrom, TokensAt
<1> HIDE DEF lex
<1> QED BY <1>1, <1>2
\* The tokens from p on end where the text does or with the first error.
TokenKinds == {"NORMAL", "START_BLOCK", "END_BLOCK", "STATEMENT_END"}
Tokenized(s) ==
    /\ s \in Seq([type : TokenType, value : Nat \X Nat, next : 1 .. Len(text) + 1])
    /\ Len(s) >= 1 /\ s[Len(s)].type \in {"EOF", "ERROR"}
    /\ \A i \in 1 .. Len(s) - 1 : s[i].type \in TokenKinds

LEMMA OneMoreToken ==
    ASSUME NEW R, NEW s \in Seq(R), NEW t \in R
    PROVE  /\ <<t>> \o s \in Seq(R) /\ Len(<<t>> \o s) = Len(s) + 1
           /\ (<<t>> \o s)[1] = t
           /\ \A i \in 1 .. Len(s) : (<<t>> \o s)[i + 1] = s[i]
<1>1. <<t>> \in Seq(R) /\ Len(<<t>>) = 1 /\ <<t>>[1] = t
    OBVIOUS
<1>2. \A i \in 1 .. Len(s) : i + 1 \in 1 .. 1 + Len(s) /\ (i + 1) - 1 = i /\ ~(i + 1 <= 1)
    OBVIOUS
<1> QED BY <1>1, <1>2, ConcatProperties

LEMMA TokensFromType ==
    ASSUME TypeOK
    PROVE  \A p \in 1 .. Len(text) + 1 : Tokenized(TokensFrom[p])
<1> DEFINE n == Len(text) + 1
           S == {p \in 0 .. n : p # 0 => Tokenized(TokensFrom[p])}
           R == [type : TokenType, value : Nat \X Nat, next : 1 .. Len(text) + 1]
<1>1. n \in Nat /\ Len(text) \in Nat
    BY DEF TypeOK
<1>2. ASSUME NEW p \in 0 .. n, \A q \in p + 1 .. n : q \in S
      PROVE  p \in S
    <2>1. SUFFICES ASSUME p # 0 PROVE Tokenized(TokensFrom[p])
        OBVIOUS
    <2>2. p \in 1 .. Len(text) + 1
        BY <1>1, <2>1
    <2> DEFINE t == ParseToken(p)
    <2>3. t \in R /\ (t.type \in {"EOF", "ERROR"} \/ p < t.next) /\ t.next \in 1 .. n
        BY <2>2, ParseTokenType DEF TokenFrom
    <2>4. TokensFrom[p] = TokensAt(TokensFrom, p)
        BY <2>2, TokensFromIs
    <2>5. t.type \in TokenType
        BY <2>3
    <2>6. CASE t.type \in {"EOF", "ERROR"}
        <3>1. TokensFrom[p] = <<t>>
            BY <2>4, <2>6 DEF TokensAt
        <3>2. <<t>> \in Seq(R) /\ Len(<<t>>) = 1 /\ <<t>>[1] = t
            BY <2>3
        <3> HIDE DEF t
        <3> QED BY <2>6, <3>1, <3>2 DEF Tokenized
    <2>7. CASE t.type \notin {"EOF", "ERROR"}
        <3>1. t.next \in p + 1 .. n /\ t.next # 0
            BY <1>1, <2>3, <2>7
        <3>2. Tokenized(TokensFrom[t.next])
            BY <1>2, <3>1
        <3>3. CASE t.type = "COMMENT"
            <4>1. TokensFrom[p] = TokensFrom[t.next]
                BY <2>4, <3>3 DEF TokensAt
            <4> QED BY <3>2, <4>1
        <3>4. CASE t.type # "COMMENT"
            <4> DEFINE s == TokensFrom[t.next]
            <4>1. TokensFrom[p] = <<t>> \o s
                BY <2>4, <2>7, <3>4 DEF TokensAt
            <4>2. t.type \in TokenKinds
                BY <2>5, <2>7, <3>4 DEF TokenType, TokenKinds
            <4> HIDE DEF t, s
            <4>3. Tokenized(s) /\ s \in Seq(R)
                BY <3>2 DEF s, Tokenized
            <4> HIDE DEF R
            <4>4. /\ <<t>> \o s \in Seq(R) /\ Len(<<t>> \o s) = Len(s) + 1
                  /\ (<<t>> \o s)[1] = t
                  /\ \A i \in 1 .. Len(s) : (<<t>> \o s)[i + 1] = s[i]
                BY <2>3, <4>3, OneMoreToken
            <4>5. Len(s) \in Nat /\ Len(s) >= 1 /\ s[Len(s)].type \in {"EOF", "ERROR"}
                BY <4>3 DEF Tokenized
            <4>6. (<<t>> \o s)[Len(s) + 1] = s[Len(s)]
                BY <4>4, <4>5
            <4>7. ASSUME NEW i \in 1 .. Len(s) PROVE (<<t>> \o s)[i].type \in TokenKinds
                <5>1. CASE i = 1
                    BY <4>2, <4>4, <5>1
                <5>2. CASE i # 1
                    <6>1. i - 1 \in 1 .. Len(s) - 1 /\ i - 1 \in 1 .. Len(s) /\ (i - 1) + 1 = i
                        BY <4>5, <5>2
                    <6>2. (<<t>> \o s)[i] = s[i - 1]
                        BY <4>4, <6>1
                    <6> QED BY <4>3, <6>1, <6>2 DEF Tokenized
                <5> QED BY <5>1, <5>2
            <4>8. (Len(s) + 1) - 1 = Len(s) /\ Len(s) + 1 >= 1
                BY <4>5
            <4> QED BY <4>1, <4>4, <4>5, <4>6, <4>7, <4>8 DEF Tokenized, R
        <3> QED BY <3>3, <3>4
    <2> QED BY <2>6, <2>7
<1>3. 0 .. n \subseteq S
    <2> HIDE DEF S, n
    <2> QED BY <1>1, <1>2, Downward
<1> QED BY <1>1, <1>3

\* They are the same as long as the text is.
LEMMA TokensFromStays ==
    ASSUME UNCHANGED text
    PROVE  TokensFrom' = TokensFrom
BY DEF TokensFrom, ParseToken, First, Word, Quoted, Comment, Eof, AtEnd, Token

LEMMA ParseTokenStays ==
    ASSUME UNCHANGED text
    PROVE  \A p : ParseToken(p)' = ParseToken(p)
BY DEF ParseToken, First, Word, Quoted, Comment, Eof, AtEnd, Token

-------------------------------------------------------------------------------
(* How far Parse has read                                                      *)

All == TokensFrom[1]
Count == Len(All) - Len(TokensFrom[pos])

\* From pos on there are the tokens of the file that were not read yet.
RestIsLeft ==
    /\ Count \in Nat
    /\ \A i \in 1 .. Len(TokensFrom[pos]) : TokensFrom[pos][i] = All[Count + i]

LEMMA AllIs ==
    ASSUME TypeOK
    PROVE  Tokenized(All) /\ Len(All) \in Nat /\ Len(All) - 1 \in Nat
<1>1. 1 \in 1 .. Len(text) + 1
    BY DEF TypeOK
<1>2. Tokenized(All)
    BY <1>1, TokensFromType DEF All
<1> QED BY <1>2 DEF Tokenized

LEMMA AllStays == UNCHANGED text => All' = All
BY TokensFromStays DEF All

\* A round of Parse reads one token, or skips one comment.
LEMMA Reads ==
    ASSUME TypeOK, RestIsLeft, UNCHANGED text, pos' = ParseToken(pos).next
    PROVE  /\ ParseToken(pos).type = "COMMENT" => RestIsLeft' /\ Count' = Count
           /\ ParseToken(pos).type \in TokenKinds =>
                 /\ RestIsLeft' /\ Count' = Count + 1 /\ Count + 1 \in 1 .. Len(All) - 1
                 /\ All[Count + 1].type = ParseToken(pos).type
                 /\ All[Count + 1].value = ParseToken(pos).value
           /\ ParseToken(pos).type \in {"EOF", "ERROR"} =>
                 Count + 1 = Len(All) /\ All[Count + 1].type = ParseToken(pos).type
<1> DEFINE t == ParseToken(pos)
           s == TokensFrom[pos]
           r == TokensFrom[t.next]
<1>1. pos \in 1 .. Len(text) + 1 /\ t \in TokenFrom(pos) /\ t.next \in 1 .. Len(text) + 1
    BY ParseTokenType DEF TypeOK, TokenFrom
<1>2. Tokenized(s) /\ Tokenized(r)
    BY <1>1, TokensFromType
<1>3. s = TokensAt(TokensFrom, pos)
    BY <1>1, TokensFromIs
<1>4. Len(All) \in Nat /\ Len(s) \in Nat /\ Len(r) \in Nat /\ Len(s) >= 1 /\ Len(r) >= 1
    <2> HIDE DEF s, r
    <2> DEFINE R == [type : TokenType, value : Nat \X Nat, next : 1 .. Len(text) + 1]
    <2>4. s \in Seq(R) /\ r \in Seq(R)
        BY <1>2, Zenon DEF Tokenized
    <2> HIDE DEF R
    <2>1. Len(s) \in Nat /\ Len(r) \in Nat
        BY <2>4
    <2>2. Len(s) >= 1 /\ Len(r) >= 1
        BY <1>2 DEF Tokenized
    <2>3. Len(All) \in Nat
        BY AllIs
    <2> QED BY <2>1, <2>2, <2>3
<1>5. TokensFrom' = TokensFrom /\ All' = All /\ TokensFrom'[pos'] = r
    BY TokensFromStays, AllStays
<1>6. /\ Count = Len(All) - Len(s) /\ Count \in Nat
      /\ \A i \in 1 .. Len(s) : s[i] = All[Count + i]
    BY DEF RestIsLeft, Count
<1>7. Count' = Len(All) - Len(r)
    BY <1>5 DEF Count
<1>8. RestIsLeft' <=> Count' \in Nat /\ \A i \in 1 .. Len(r) : r[i] = All[Count' + i]
    BY <1>5 DEF RestIsLeft
<1> HIDE DEF s, r
<1>9. CASE t.type = "COMMENT"
    <2>1. s = r
        BY <1>3, <1>9 DEF TokensAt, r
    <2> QED BY <1>6, <1>7, <1>8, <1>9, <2>1 DEF TokenKinds
<1>10. CASE t.type \in TokenKinds
    <2>1. s = <<t>> \o r
        BY <1>3, <1>10 DEF TokensAt, r, TokenKinds
    <2>2. r \in Seq([type : TokenType, value : Nat \X Nat, next : 1 .. Len(text) + 1])
        BY <1>2 DEF Tokenized
    <2>3. t \in [type : TokenType, value : Nat \X Nat, next : 1 .. Len(text) + 1]
        BY <1>1 DEF TokenFrom
    <2>4. Len(s) = Len(r) + 1 /\ s[1] = t /\ \A i \in 1 .. Len(r) : s[i + 1] = r[i]
        BY <2>1, <2>2, <2>3, OneMoreToken
    <2>5. Count' = Count + 1 /\ Count + 1 \in 1 .. Len(All) - 1
        BY <1>4, <1>6, <1>7, <2>4
    <2>6. All[Count + 1] = t
        BY <1>4, <1>6, <2>4
    <2>7. ASSUME NEW i \in 1 .. Len(r) PROVE r[i] = All[Count' + i]
        <3>1. i \in Nat /\ 1 <= i /\ i <= Len(r) /\ Count \in Nat
            BY <1>4, <1>6
        <3>2. i + 1 \in 1 .. Len(s)
            BY <1>4, <2>4, <3>1
        <3>3. Count + (i + 1) = Count' + i
            BY <2>5, <3>1
        <3> QED BY <1>6, <2>4, <3>2, <3>3
    <2>8. RestIsLeft'
        BY <1>6, <1>8, <2>5, <2>7
    <2> QED BY <1>10, <2>5, <2>6, <2>8 DEF TokenKinds
<1>11. CASE t.type \in {"EOF", "ERROR"}
    <2>1. s = <<t>>
        BY <1>3, <1>11 DEF TokensAt
    <2>2. Len(s) = 1 /\ s[1] = t
        BY <2>1
    <2> QED BY <1>4, <1>6, <1>11, <2>2 DEF TokenKinds
<1>12. t.type \in TokenType
    BY <1>1 DEF TokenFrom
<1> QED BY <1>9, <1>10, <1>11, <1>12 DEF TokenType, TokenKinds

-------------------------------------------------------------------------------
(* The grammar                                                                 *)

\* What ConfigEnds is at i, given what it is after i.
EndsAt(ts, ends, i) == {i} \cup UNION {ends[j] : j \in StatementEnds(ts, ends, i)}

LEMMA StatementEndsAgree ==
    ASSUME NEW ts, Len(ts) \in Nat, NEW i \in 0 .. Len(ts), NEW f, NEW g,
           \A j \in 0 .. Len(ts) : i < j => f[j] = g[j]
    PROVE  StatementEnds(ts, f, i) = StatementEnds(ts, g, i)
<1>1. ASSUME NEW j \in i + 1 .. Len(ts), NEW n \in i + 1 .. j - 1
      PROVE  f[n + 1] = g[n + 1]
    OBVIOUS
<1>2. \A j \in i + 1 .. Len(ts) : j \in StatementEnds(ts, f, i) <=> j \in StatementEnds(ts, g, i)
    BY <1>1 DEF StatementEnds
<1>3. /\ \A j \in StatementEnds(ts, f, i) : j \in i + 1 .. Len(ts)
      /\ \A j \in StatementEnds(ts, g, i) : j \in i + 1 .. Len(ts)
    BY DEF StatementEnds
<1> QED BY <1>2, <1>3

LEMMA EndsAtAgree ==
    ASSUME NEW ts, Len(ts) \in Nat, NEW i \in 0 .. Len(ts), NEW f, NEW g,
           \A j \in 0 .. Len(ts) : i < j => f[j] = g[j]
    PROVE  EndsAt(ts, f, i) = EndsAt(ts, g, i)
<1>1. StatementEnds(ts, f, i) = StatementEnds(ts, g, i)
    BY StatementEndsAgree
<1>2. \A j \in StatementEnds(ts, g, i) : f[j] = g[j]
    BY DEF StatementEnds
<1>3. {f[j] : j \in StatementEnds(ts, g, i)} = {g[j] : j \in StatementEnds(ts, g, i)}
    BY <1>2
<1> QED BY <1>1, <1>3 DEF EndsAt

LEMMA ConfigEndsExists ==
    ASSUME NEW ts, Len(ts) \in Nat
    PROVE  \E f : f = [i \in 0 .. Len(ts) |-> EndsAt(ts, f, i)]
<1> DEFINE P == 0 .. Len(ts)
           n == Len(ts) + 1
           Right(i, f) == f = [j \in P |-> f[j]] /\ \A j \in P : i <= j => f[j] = EndsAt(ts, f, j)
           S == {i \in 0 .. n : \E f : Right(i, f)}
<1>1. n \in Nat
    OBVIOUS
<1>2. ASSUME NEW i \in 0 .. n, \A j \in i + 1 .. n : j \in S
      PROVE  i \in S
    <2>1. CASE i = n
        <3> DEFINE f == [j \in P |-> {}]
        <3>1. Right(i, f)
            BY <2>1
        <3> HIDE DEF Right
        <3>2. \E h : Right(i, h)
            BY <3>1, Zenon
        <3> QED BY <1>2, <3>2
    <2>2. CASE i # n
        <3>1. i + 1 \in S
            BY <1>1, <1>2, <2>2
        <3>2. PICK f : Right(i + 1, f)
            BY <3>1
        <3> DEFINE g == [j \in P |-> IF j = i THEN EndsAt(ts, f, j) ELSE f[j]]
        <3>3. \A j \in P : i + 1 <= j => g[j] = f[j]
            BY <1>1
        <3>4. ASSUME NEW j \in P, i <= j PROVE g[j] = EndsAt(ts, g, j)
            <4>1. g[j] = EndsAt(ts, f, j)
                BY <1>1, <3>2, <3>4
            <4>2. \A q \in P : j < q => f[q] = g[q]
                BY <1>1, <3>3, <3>4
            <4> HIDE DEF g
            <4>3. EndsAt(ts, f, j) = EndsAt(ts, g, j)
                BY <4>2, EndsAtAgree
            <4> QED BY <4>1, <4>3
        <3>5. g = [j \in P |-> g[j]]
            OBVIOUS
        <3> HIDE DEF g
        <3>6. Right(i, g)
            BY <3>4, <3>5
        <3> HIDE DEF Right
        <3>7. \E h : Right(i, h)
            BY <3>6, Zenon
        <3> QED BY <1>2, <3>7
    <2> QED BY <2>1, <2>2
<1>3. 0 \in S
    <2> HIDE DEF S, n
    <2>1. 0 .. n \subseteq S
        BY <1>1, <1>2, Downward
    <2> QED BY <1>1, <2>1
<1>4. PICK f : Right(0, f)
    BY <1>3
<1>5. f = [i \in P |-> EndsAt(ts, f, i)]
    BY <1>4
<1> QED BY <1>5, Zenon

LEMMA ConfigEndsIs ==
    ASSUME NEW ts, Len(ts) \in Nat, NEW i \in 0 .. Len(ts)
    PROVE  ConfigEnds(ts)[i] = EndsAt(ts, ConfigEnds(ts), i)
<1> DEFINE ends == CHOOSE f : f = [j \in 0 .. Len(ts) |-> EndsAt(ts, f, j)]
<1>1. ends = [j \in 0 .. Len(ts) |-> EndsAt(ts, ends, j)]
    BY ConfigEndsExists, Zenon
<1>2. ConfigEnds(ts) = ends
    BY Zenon DEF ConfigEnds, EndsAt
<1> HIDE DEF ends
<1> QED BY <1>1, <1>2

\* An empty config ends where it begins, another one where what follows its first
\* statement does.
LEMMA ConfigEndsAre ==
    ASSUME NEW ts, Len(ts) \in Nat, NEW i \in 0 .. Len(ts), NEW x
    PROVE  x \in ConfigEnds(ts)[i] <=>
              x = i \/ \E j \in StatementEnds(ts, ConfigEnds(ts), i) : x \in ConfigEnds(ts)[j]
BY ConfigEndsIs DEF EndsAt

\* The file is one of the grammar, as AcceptsTheGrammar has it.
Grammatical == LexesToTheEnd /\ IsConfig(Types(Tokens))

Size == Len(All) - 1
Ends == ConfigEnds(Types(Tokens))

LEMMA TypesAre ==
    ASSUME TypeOK
    PROVE  /\ Size \in Nat /\ Len(Types(Tokens)) = Size /\ Len(Tokens) = Size
           /\ DOMAIN Tokens = 1 .. Size
           /\ \A i \in 1 .. Size : /\ Types(Tokens)[i] = All[i].type /\ Tokens[i] = All[i]
                                   /\ All[i].type \in TokenKinds /\ All[i].value \in Nat \X Nat
<1> DEFINE R == [type : TokenType, value : Nat \X Nat, next : 1 .. Len(text) + 1]
<1>1. All \in Seq(R) /\ Size \in Nat /\ Size <= Len(All) /\ Len(All) \in Nat
    <2>1. Len(All) \in Nat /\ Len(All) - 1 \in Nat /\ All \in Seq(R)
        BY AllIs DEF Tokenized
    <2> QED BY <2>1 DEF Size
<1>2. Tokens = SubSeq(All, 1, Size)
    BY DEF Tokens, Front, All, Size
<1>8. \A i \in 1 .. Size : All[i].value \in Nat \X Nat
    <2>1. \A i \in 1 .. Len(All) : All[i] \in R
        BY <1>1, ElementOfSeq
    <2>2. \A i \in 1 .. Size : i \in 1 .. Len(All)
        BY <1>1
    <2>3. \A i \in 1 .. Size : All[i] \in R
        BY <2>1, <2>2, Zenon
    <2> QED BY <2>3
<1> HIDE DEF R
<1>3. Len(Tokens) = Size /\ \A i \in 1 .. Size : Tokens[i] = All[i]
    <2>1. \A i \in 1 .. Size : i \in 1 .. Len(All)
        BY <1>1
    <2> QED BY <1>1, <1>2, <2>1
<1>4. Tokens \in Seq(R)
    BY <1>1, <1>2
<1>5. Types(Tokens) = [i \in 1 .. Size |-> Tokens[i].type]
    BY <1>3, <1>4 DEF Types
<1>6. Len(Types(Tokens)) = Size
    BY <1>1, <1>5
<1>7. \A i \in 1 .. Size : All[i].type \in TokenKinds
    BY AllIs DEF Tokenized, Size
<1>9. DOMAIN Tokens = 1 .. Size
    BY <1>3, <1>4
<1> QED BY <1>1, <1>3, <1>5, <1>6, <1>7, <1>8, <1>9

LEMMA EndsStay == UNCHANGED text => Ends' = Ends /\ Size' = Size /\ Grammatical' = Grammatical
<1> SUFFICES ASSUME UNCHANGED text
             PROVE  Ends' = Ends /\ Size' = Size /\ Grammatical' = Grammatical
    OBVIOUS
<1>1. TokensFrom' = TokensFrom
    BY TokensFromStays
<1>2. Tokens' = Tokens /\ LexesToTheEnd' = LexesToTheEnd
    BY <1>1 DEF Tokens, LexesToTheEnd
<1> QED BY <1>1, <1>2 DEF Ends, Size, All, Grammatical

\* The tokens m + 1 .. j end a statement.
EndsStatement(m, j) ==
    \/ All[j].type = "STATEMENT_END" /\ j = m + 1
    \/ All[m + 1].type = "START_BLOCK" /\ All[j].type = "END_BLOCK" /\ j - 1 \in Ends[m + 1]

\* The tokens k + 1 .. e are the rest of a statement and a config.
StatementGoesOn(k, e) ==
    \E j \in k + 1 .. Size : \E m \in k .. j - 1 :
        /\ \A i \in k + 1 .. m : All[i].type = "NORMAL"
        /\ EndsStatement(m, j)
        /\ e \in Ends[j]

LEMMA EndsAre ==
    ASSUME TypeOK, NEW i \in 0 .. Size, NEW x
    PROVE  x \in Ends[i] <=>
              \/ x = i
              \/ \E j \in i + 1 .. Size : \E n \in i + 1 .. j - 1 :
                    /\ \A k \in i + 1 .. n : All[k].type = "NORMAL"
                    /\ EndsStatement(n, j) /\ x \in Ends[j]
<1> DEFINE ts == Types(Tokens)
<1>1. /\ Size \in Nat /\ Len(ts) = Size
      /\ \A k \in 1 .. Size : ts[k] = All[k].type
    BY TypesAre
<1>2. x \in Ends[i] <=> x = i \/ \E j \in StatementEnds(ts, Ends, i) : x \in Ends[j]
    BY <1>1, ConfigEndsAre DEF Ends
<1> HIDE DEF ts
<1>3. ASSUME NEW j \in i + 1 .. Size, NEW n \in i + 1 .. j - 1
      PROVE  /\ (\A k \in i + 1 .. n : ts[k] = "NORMAL") <=>
                   \A k \in i + 1 .. n : All[k].type = "NORMAL"
             /\ ts[j] = All[j].type /\ ts[n + 1] = All[n + 1].type
    <2>1. j \in 1 .. Size /\ n + 1 \in 1 .. Size /\ \A k \in i + 1 .. n : k \in 1 .. Size
        BY <1>1
    <2> QED BY <1>1, <2>1
<1>4. ASSUME NEW j \in i + 1 .. Size
      PROVE  j \in StatementEnds(ts, Ends, i) <=>
                \E n \in i + 1 .. j - 1 :
                   (\A k \in i + 1 .. n : All[k].type = "NORMAL") /\ EndsStatement(n, j)
    <2>1. j \in 1 .. Len(ts) /\ j \in i + 1 .. Len(ts)
        BY <1>1
    <2>2. j \in StatementEnds(ts, Ends, i) <=>
             \E n \in i + 1 .. j - 1 :
                /\ \A k \in i + 1 .. n : ts[k] = "NORMAL"
                /\ \/ ts[j] = "STATEMENT_END" /\ j = n + 1
                   \/ ts[n + 1] = "START_BLOCK" /\ ts[j] = "END_BLOCK" /\ j - 1 \in Ends[n + 1]
        BY <2>1, Zenon DEF StatementEnds
    <2> QED BY <1>3, <2>2, Zenon DEF EndsStatement
<1>5. \A j \in StatementEnds(ts, Ends, i) : j \in i + 1 .. Size
    BY <1>1 DEF StatementEnds
<1> QED BY <1>2, <1>4, <1>5

\* A config that is not empty begins with a statement.
LEMMA StatementBegins ==
    ASSUME TypeOK, NEW k \in 0 .. Size, NEW e \in Ends[k], e # k
    PROVE  k < Size /\ All[k + 1].type = "NORMAL" /\ StatementGoesOn(k + 1, e)
<1>1. PICK j \in k + 1 .. Size : \E n \in k + 1 .. j - 1 :
            /\ \A i \in k + 1 .. n : All[i].type = "NORMAL"
            /\ EndsStatement(n, j) /\ e \in Ends[j]
    BY EndsAre
<1>2. PICK n \in k + 1 .. j - 1 : /\ \A i \in k + 1 .. n : All[i].type = "NORMAL"
                                  /\ EndsStatement(n, j) /\ e \in Ends[j]
    BY <1>1
<1>3. Size \in Nat
    BY TypesAre
<1>4. k < Size /\ k + 1 \in k + 1 .. n /\ j \in (k + 1) + 1 .. Size
    BY <1>3
<1>5. \A i \in (k + 1) + 1 .. n : i \in k + 1 .. n
    BY <1>3
<1> QED BY <1>2, <1>4, <1>5 DEF StatementGoesOn

\* What can come in the middle of a statement, and what then follows.
LEMMA StatementContinues ==
    ASSUME TypeOK, NEW k \in 0 .. Size, NEW e, StatementGoesOn(k, e)
    PROVE  /\ k < Size
           /\ \/ All[k + 1].type = "NORMAL" /\ StatementGoesOn(k + 1, e)
              \/ All[k + 1].type = "STATEMENT_END" /\ e \in Ends[k + 1]
              \/ /\ All[k + 1].type = "START_BLOCK"
                 /\ \E d \in 0 .. Size : /\ d < Size /\ All[d + 1].type = "END_BLOCK"
                                         /\ d \in Ends[k + 1] /\ e \in Ends[d + 1]
<1>1. PICK j \in k + 1 .. Size : \E m \in k .. j - 1 :
            /\ \A i \in k + 1 .. m : All[i].type = "NORMAL"
            /\ EndsStatement(m, j) /\ e \in Ends[j]
    BY DEF StatementGoesOn
<1>2. PICK m \in k .. j - 1 : /\ \A i \in k + 1 .. m : All[i].type = "NORMAL"
                              /\ EndsStatement(m, j) /\ e \in Ends[j]
    BY <1>1
<1>3. Size \in Nat
    BY TypesAre
<1>4. k < Size
    BY <1>3
<1>5. CASE m # k
    <2>1. /\ k + 1 \in k + 1 .. m /\ j \in (k + 1) + 1 .. Size /\ m \in k + 1 .. j - 1
          /\ \A i \in (k + 1) + 1 .. m : i \in k + 1 .. m
        BY <1>3, <1>5
    <2>2. All[k + 1].type = "NORMAL" /\ StatementGoesOn(k + 1, e)
        BY <1>2, <2>1 DEF StatementGoesOn
    <2> QED BY <1>4, <2>2
<1>6. CASE m = k
    <2>1. CASE All[j].type = "STATEMENT_END" /\ j = m + 1
        BY <1>2, <1>4, <1>6, <2>1
    <2>2. CASE All[m + 1].type = "START_BLOCK" /\ All[j].type = "END_BLOCK" /\ j - 1 \in Ends[m + 1]
        <3>1. j - 1 \in 0 .. Size /\ j - 1 < Size /\ (j - 1) + 1 = j
            BY <1>3
        <3> QED BY <1>2, <1>4, <1>6, <2>2, <3>1
    <2> QED BY <1>2, <2>1, <2>2 DEF EndsStatement
<1> QED BY <1>5, <1>6

-------------------------------------------------------------------------------
(* Files of the grammar are accepted                                           *)

\* The rest of the file closes each open block: that of stack level l ends with
\* token e[l], before the mark that ends the statement it is in.
Closing(e) ==
    /\ e \in [1 .. Len(config_stack) -> 0 .. Size] /\ e[1] = Size
    /\ \A l \in 1 .. Len(config_stack) :
          l > 1 => e[l] < Size /\ All[e[l] + 1].type = "END_BLOCK" /\ e[l - 1] \in Ends[e[l] + 1]

Follows(k, e) == IF last_token_type = "NORMAL" THEN StatementGoesOn(k, e) ELSE e \in Ends[k]

Completable == \E e : Closing(e) /\ Follows(Count, e[Len(config_stack)])

\* At the start only the root is open, and after { it is not the only one.
StartIsAtRoot == /\ last_token_type = "START" => Len(config_stack) = 1
                 /\ last_token_type = "START_BLOCK" => Len(config_stack) > 1

LEMMA CountIs ==
    ASSUME TypeOK, RestIsLeft
    PROVE  Count \in 0 .. Size /\ Size \in Nat
<1>1. pos \in 1 .. Len(text) + 1
    BY DEF TypeOK
<1>2. Tokenized(TokensFrom[pos])
    BY <1>1, TokensFromType
<1>3. Len(TokensFrom[pos]) \in Nat /\ Len(TokensFrom[pos]) >= 1
    BY <1>2 DEF Tokenized
<1>4. Count \in Nat /\ Size \in Nat /\ Len(All) \in Nat /\ Size = Len(All) - 1
    BY AllIs, TypesAre DEF RestIsLeft, Size
<1> QED BY <1>3, <1>4 DEF Count

\* When the file can be completed, the next token is one that Parse accepts.
LEMMA WhatFollows ==
    ASSUME TypeOK, NEW k \in 0 .. Size, NEW e, Closing(e), Follows(k, e[Len(config_stack)])
    PROVE  LET n == Len(config_stack) IN
           \/ /\ last_token_type # "NORMAL" /\ k = Size /\ n = 1
           \/ /\ last_token_type # "NORMAL" /\ k < Size /\ n > 1
              /\ All[k + 1].type = "END_BLOCK" /\ e[n - 1] \in Ends[k + 1]
           \/ k < Size /\ All[k + 1].type = "NORMAL" /\ StatementGoesOn(k + 1, e[n])
           \/ /\ last_token_type = "NORMAL" /\ k < Size
              /\ All[k + 1].type = "STATEMENT_END" /\ e[n] \in Ends[k + 1]
           \/ /\ last_token_type = "NORMAL" /\ k < Size
              /\ All[k + 1].type = "START_BLOCK"
              /\ \E d \in 0 .. Size : /\ d < Size /\ All[d + 1].type = "END_BLOCK"
                                      /\ d \in Ends[k + 1] /\ e[n] \in Ends[d + 1]
<1> DEFINE n == Len(config_stack)
<1>1. n \in Nat \ {0} /\ n \in 1 .. n
    BY DEF TypeOK
<1> HIDE DEF n
<1>2. CASE last_token_type = "NORMAL"
    <2>1. StatementGoesOn(k, e[n])
        BY <1>2 DEF Follows, n
    <2> QED BY <1>2, <2>1, StatementContinues DEF n
<1>3. CASE last_token_type # "NORMAL"
    <2>1. e[n] \in Ends[k]
        BY <1>3 DEF Follows, n
    <2>2. CASE e[n] # k
        <3>1. k < Size /\ All[k + 1].type = "NORMAL" /\ StatementGoesOn(k + 1, e[n])
            BY <2>1, <2>2, StatementBegins
        <3> QED BY <3>1 DEF n
    <2>3. CASE e[n] = k
        <3>1. CASE n = 1
            BY <1>3, <2>3, <3>1 DEF Closing, n
        <3>2. CASE n > 1
            BY <1>1, <1>3, <2>3, <3>2 DEF Closing, n
        <3> QED BY <1>1, <3>1, <3>2
    <2> QED BY <2>2, <2>3
<1> QED BY <1>2, <1>3

\* What a token that Parse takes is among those of the file.
LEMMA TakeReads ==
    ASSUME TypeOK, RestIsLeft, UNCHANGED text, NEW type, Take(type)
    PROVE  /\ All' = All /\ Size' = Size /\ Ends' = Ends
           /\ Count \in 0 .. Size /\ Size \in Nat
           /\ type = "COMMENT" => RestIsLeft' /\ Count' = Count
           /\ type \in TokenKinds =>
                 /\ RestIsLeft' /\ Count' = Count + 1 /\ Count + 1 \in 1 .. Size
                 /\ All[Count + 1].type = type
                 /\ All[Count + 1].value = ParseToken(pos).value
           /\ type \in {"EOF", "ERROR"} => Count = Size /\ All[Size + 1].type = type
<1>1. ParseToken(pos).type = type /\ pos' = ParseToken(pos).next
    BY DEF Take
<1>2. Count \in 0 .. Size /\ Size \in Nat /\ Size = Len(All) - 1 /\ Len(All) \in Nat
    BY CountIs, AllIs DEF Size
<1>3. type \in {"EOF", "ERROR"} => Count + 1 = Len(All) /\ All[Count + 1].type = type
    BY <1>1, Reads
<1>4. type \in {"EOF", "ERROR"} => Count = Size /\ Count + 1 = Size + 1
    BY <1>2, <1>3
<1>5. type \in TokenKinds =>
         /\ RestIsLeft' /\ Count' = Count + 1 /\ Count + 1 \in 1 .. Size
         /\ All[Count + 1].type = type
         /\ All[Count + 1].value = ParseToken(pos).value
    BY <1>1, Reads DEF Size
<1>6. type = "COMMENT" => RestIsLeft' /\ Count' = Count
    BY <1>1, Reads
<1> QED BY <1>2, <1>3, <1>4, <1>5, <1>6, AllStays, EndsStay

LEMMA ClosingStays ==
    ASSUME NEW e, Closing(e), UNCHANGED <<text, config_stack>>
    PROVE  Closing(e)'
BY AllStays, EndsStay DEF Closing

LEMMA GoesOnStays ==
    ASSUME UNCHANGED text, NEW k, NEW e, StatementGoesOn(k, e)
    PROVE  StatementGoesOn(k, e)'
BY AllStays, EndsStay DEF StatementGoesOn, EndsStatement

\* As long as Parse goes on, a file of the grammar can be completed.
LEMMA CompletableNext ==
    ASSUME IInv, RestIsLeft, Completable, Next, result' = "running"
    PROVE  Completable'
<1> DEFINE n == Len(config_stack)
<1>1. PICK e : Closing(e) /\ Follows(Count, e[n])
    BY DEF Completable
<1>2. TypeOK /\ n \in Nat \ {0}
    BY DEF IInv, TypeOK
<1>3. Count \in 0 .. Size /\ Size \in Nat
    BY <1>2, CountIs
<1> HIDE DEF n
<1>4. \/ last_token_type # "NORMAL" /\ Count = Size /\ n = 1
      \/ /\ last_token_type # "NORMAL" /\ Count < Size /\ n > 1
         /\ All[Count + 1].type = "END_BLOCK" /\ e[n - 1] \in Ends[Count + 1]
      \/ Count < Size /\ All[Count + 1].type = "NORMAL" /\ StatementGoesOn(Count + 1, e[n])
      \/ /\ last_token_type = "NORMAL" /\ Count < Size
         /\ All[Count + 1].type = "STATEMENT_END" /\ e[n] \in Ends[Count + 1]
      \/ /\ last_token_type = "NORMAL" /\ Count < Size
         /\ All[Count + 1].type = "START_BLOCK"
         /\ \E d \in 0 .. Size : /\ d < Size /\ All[d + 1].type = "END_BLOCK"
                                 /\ d \in Ends[Count + 1] /\ e[n] \in Ends[d + 1]
    BY <1>1, <1>2, <1>3, WhatFollows DEF n
<1>5. ASSUME NEW f, Closing(f)', Follows(Count, f[Len(config_stack)])'
      PROVE  Completable'
    BY <1>5 DEF Completable
<1>6. CASE SkipComment
    <2>1. UNCHANGED <<text, config_stack, last_token_type>> /\ Take("COMMENT")
        BY <1>6 DEF SkipComment
    <2>2. Count' = Count /\ Ends' = Ends
        BY <1>2, <2>1, TakeReads
    <2>3. Follows(Count, e[n])'
        BY <1>1, <2>1, <2>2, GoesOnStays DEF Follows, n
    <2> QED BY <1>1, <1>5, <2>1, <2>3, ClosingStays DEF n
<1>7. CASE NewStatement \/ AddToken
    <2>1. /\ UNCHANGED <<text, config_stack>> /\ Take("NORMAL") /\ last_token_type' = "NORMAL"
        BY <1>7 DEF NewStatement, AddToken, NextRound
    <2>2. Count' = Count + 1 /\ All[Count + 1].type = "NORMAL" /\ Count + 1 \in 1 .. Size
        BY <1>2, <2>1, TakeReads DEF TokenKinds
    <2>3. StatementGoesOn(Count + 1, e[n])
        BY <1>3, <1>4, <2>2
    <2>4. PICK k : k = Count + 1
        OBVIOUS
    <2>5. StatementGoesOn(k, e[n])'
        BY <2>1, <2>3, <2>4, GoesOnStays DEF n
    <2>6. Follows(Count, e[n])'
        BY <2>1, <2>2, <2>4, <2>5 DEF Follows, n
    <2> QED BY <1>1, <1>5, <2>1, <2>6, ClosingStays DEF n
<1>8. CASE EndStatement
    <2>1. /\ UNCHANGED <<text, config_stack>> /\ Take("STATEMENT_END")
          /\ last_token_type' = "STATEMENT_END"
        BY <1>8 DEF EndStatement, NextRound
    <2>2. /\ Count' = Count + 1 /\ All[Count + 1].type = "STATEMENT_END"
          /\ Count + 1 \in 1 .. Size /\ Ends' = Ends
        BY <1>2, <2>1, TakeReads DEF TokenKinds
    <2>3. e[n] \in Ends[Count + 1]
        BY <1>3, <1>4, <2>2
    <2>4. Follows(Count, e[n])'
        BY <2>1, <2>2, <2>3 DEF Follows, n
    <2> QED BY <1>1, <1>5, <2>1, <2>4, ClosingStays DEF n
<1>9. CASE StartBlock
    <2>1. /\ UNCHANGED text /\ Take("START_BLOCK") /\ last_token_type' = "START_BLOCK"
          /\ config_stack' = Append(config_stack, Len(blocks) + 1)
        BY <1>9 DEF StartBlock, NextRound
    <2>2. /\ Count' = Count + 1 /\ All[Count + 1].type = "START_BLOCK"
          /\ Count + 1 \in 1 .. Size /\ Ends' = Ends /\ All' = All /\ Size' = Size
        BY <1>2, <2>1, TakeReads DEF TokenKinds
    <2>3. PICK d \in 0 .. Size : /\ d < Size /\ All[d + 1].type = "END_BLOCK"
                                 /\ d \in Ends[Count + 1] /\ e[n] \in Ends[d + 1]
        BY <1>3, <1>4, <2>2
    <2>4. Len(config_stack') = n + 1
        <3>1. config_stack \in Seq(Nat) /\ Len(blocks) + 1 \in Nat
            BY <1>2 DEF TypeOK
        <3> QED BY <2>1, <3>1, AppendProperties DEF n
    <2> DEFINE f == [l \in 1 .. n + 1 |-> IF l = n + 1 THEN d ELSE e[l]]
    <2>5. /\ e \in [1 .. n -> 0 .. Size] /\ e[1] = Size
          /\ \A l \in 1 .. n : l > 1 =>
                e[l] < Size /\ All[e[l] + 1].type = "END_BLOCK" /\ e[l - 1] \in Ends[e[l] + 1]
        BY <1>1 DEF Closing, n
    <2>6. /\ f \in [1 .. n + 1 -> 0 .. Size] /\ f[n + 1] = d /\ f[1] = Size
          /\ \A l \in 1 .. n : f[l] = e[l]
        BY <1>2, <2>5
    <2>7. ASSUME NEW l \in 1 .. n + 1, l > 1
          PROVE  f[l] < Size /\ All[f[l] + 1].type = "END_BLOCK" /\ f[l - 1] \in Ends[f[l] + 1]
        <3> HIDE DEF f
        <3>1. CASE l = n + 1
            <4>1. f[l - 1] = e[n] /\ f[l] = d
                BY <1>2, <2>6, <3>1
            <4> QED BY <2>3, <4>1
        <3>2. CASE l # n + 1
            <4>1. l \in 1 .. n /\ l - 1 \in 1 .. n
                BY <1>2, <2>7, <3>2
            <4>2. f[l] = e[l] /\ f[l - 1] = e[l - 1]
                BY <2>6, <4>1
            <4> QED BY <2>5, <2>7, <4>1, <4>2
        <3> QED BY <3>1, <3>2
    <2> HIDE DEF f
    <2>8. PICK g : g = f
        OBVIOUS
    <2>9. Closing(g)'
        BY <2>2, <2>4, <2>6, <2>7, <2>8 DEF Closing
    <2>10. Follows(Count, g[Len(config_stack)])'
        BY <2>1, <2>2, <2>3, <2>4, <2>6, <2>8 DEF Follows
    <2> QED BY <1>5, <2>9, <2>10
<1>10. CASE EndBlock
    <2>1. /\ UNCHANGED text /\ Take("END_BLOCK") /\ last_token_type' = "END_BLOCK" /\ n # 1
          /\ config_stack' = SubSeq(config_stack, 1, n - 1)
        BY <1>10 DEF EndBlock, MayEndBlock, NextRound, n
    <2>2. /\ Count' = Count + 1 /\ All[Count + 1].type = "END_BLOCK"
          /\ Count + 1 \in 1 .. Size /\ Ends' = Ends /\ All' = All /\ Size' = Size
        BY <1>2, <2>1, TakeReads DEF TokenKinds
    <2>3. e[n - 1] \in Ends[Count + 1]
        BY <1>3, <1>4, <2>2
    <2>4. Len(config_stack') = n - 1 /\ n - 1 \in 1 .. n
        <3>1. config_stack \in Seq(Nat)
            BY <1>2 DEF TypeOK
        <3>2. n - 1 \in Nat /\ n - 1 \in 1 .. n
            BY <1>2, <2>1
        <3>3. \A i \in 1 .. n - 1 : i \in 1 .. n
            BY <1>2
        <3>4. Len(SubSeq(config_stack, 1, n - 1)) = n - 1
            BY <3>1, <3>2, <3>3 DEF n
        <3> QED BY <2>1, <3>2, <3>4
    <2> DEFINE f == [l \in 1 .. n - 1 |-> e[l]]
    <2>5. /\ e \in [1 .. n -> 0 .. Size] /\ e[1] = Size
          /\ \A l \in 1 .. n : l > 1 =>
                e[l] < Size /\ All[e[l] + 1].type = "END_BLOCK" /\ e[l - 1] \in Ends[e[l] + 1]
        BY <1>1 DEF Closing, n
    <2>6. /\ f \in [1 .. n - 1 -> 0 .. Size] /\ f[1] = Size /\ f[n - 1] = e[n - 1]
          /\ \A l \in 1 .. n - 1 : f[l] = e[l]
        BY <1>2, <2>4, <2>5
    <2>7. ASSUME NEW l \in 1 .. n - 1, l > 1
          PROVE  f[l] < Size /\ All[f[l] + 1].type = "END_BLOCK" /\ f[l - 1] \in Ends[f[l] + 1]
        <3> HIDE DEF f
        <3>1. l \in 1 .. n /\ l - 1 \in 1 .. n - 1
            BY <1>2, <2>7
        <3>2. f[l] = e[l] /\ f[l - 1] = e[l - 1]
            BY <2>6, <3>1
        <3> QED BY <2>5, <2>7, <3>1, <3>2
    <2> HIDE DEF f
    <2>8. PICK g : g = f
        OBVIOUS
    <2>9. Closing(g)'
        BY <2>2, <2>4, <2>6, <2>7, <2>8 DEF Closing
    <2>10. Follows(Count, g[Len(config_stack)])'
        BY <2>1, <2>2, <2>3, <2>4, <2>6, <2>8 DEF Follows
    <2> QED BY <1>5, <2>9, <2>10
<1>11. ~EndOfFile /\ ~BadTransition
    BY DEF EndOfFile, BadTransition
<1> QED BY <1>6, <1>7, <1>8, <1>9, <1>10, <1>11 DEF Next

\* Parse refuses no file of the grammar.
LEMMA NotRefused ==
    ASSUME IInv, RestIsLeft, StartIsAtRoot, LexesToTheEnd, Completable, Next
    PROVE  result' # "false"
<1> DEFINE n == Len(config_stack)
<1>1. PICK e : Closing(e) /\ Follows(Count, e[n])
    BY DEF Completable
<1>2. TypeOK /\ n \in Nat \ {0}
    BY DEF IInv, TypeOK
<1>3. Count \in 0 .. Size /\ Size \in Nat
    BY <1>2, CountIs
<1>4. All[Size + 1].type = "EOF"
    <2>1. Size + 1 = Len(All)
        BY <1>2, AllIs DEF Size
    <2> QED BY <2>1 DEF LexesToTheEnd, Last, All
<1> HIDE DEF n
<1>5. \/ last_token_type # "NORMAL" /\ Count = Size /\ n = 1
      \/ /\ last_token_type # "NORMAL" /\ Count < Size /\ n > 1
         /\ All[Count + 1].type = "END_BLOCK" /\ e[n - 1] \in Ends[Count + 1]
      \/ Count < Size /\ All[Count + 1].type = "NORMAL" /\ StatementGoesOn(Count + 1, e[n])
      \/ /\ last_token_type = "NORMAL" /\ Count < Size
         /\ All[Count + 1].type = "STATEMENT_END" /\ e[n] \in Ends[Count + 1]
      \/ /\ last_token_type = "NORMAL" /\ Count < Size
         /\ All[Count + 1].type = "START_BLOCK"
         /\ \E d \in 0 .. Size : /\ d < Size /\ All[d + 1].type = "END_BLOCK"
                                 /\ d \in Ends[Count + 1] /\ e[n] \in Ends[d + 1]
    BY <1>1, <1>2, <1>3, WhatFollows DEF n
<1>6. CASE EndOfFile
    <2>1. Take("EOF") /\ UNCHANGED text
        BY <1>6 DEF EndOfFile
    <2>2. Count = Size
        BY <1>2, <2>1, TakeReads
    <2>3. last_token_type # "NORMAL" /\ n = 1
        BY <1>3, <1>5, <2>2
    <2>4. last_token_type # "START_BLOCK"
        BY <2>3 DEF StartIsAtRoot, n
    <2>5. last_token_type \in {"STATEMENT_END", "END_BLOCK", "START"}
        BY <1>2, <2>3, <2>4 DEF TypeOK
    <2> QED BY <1>6, <2>3, <2>5 DEF EndOfFile, n
<1>7. ASSUME BadTransition PROVE FALSE
    <2>1. UNCHANGED text
        BY <1>7 DEF BadTransition
    <2>2. ~Take("ERROR")
        BY <1>2, <1>4, <2>1, TakeReads
    <2>3. ASSUME NEW type \in TokenKinds, Take(type)
          PROVE  All[Count + 1].type = type /\ Count < Size
        <3>1. All[Count + 1].type = type /\ Count + 1 \in 1 .. Size
            BY <1>2, <2>1, <2>3, TakeReads
        <3> QED BY <1>3, <3>1
    <2>4. ~(Take("STATEMENT_END") /\ last_token_type # "NORMAL")
        BY <1>3, <1>5, <2>3 DEF TokenKinds
    <2>5. ~(Take("START_BLOCK") /\ last_token_type # "NORMAL")
        BY <1>3, <1>5, <2>3 DEF TokenKinds
    <2>6. ASSUME Take("END_BLOCK") PROVE MayEndBlock
        <3>1. All[Count + 1].type = "END_BLOCK" /\ Count < Size
            BY <2>3, <2>6 DEF TokenKinds
        <3>2. last_token_type # "NORMAL" /\ n > 1
            BY <1>3, <1>5, <3>1
        <3>3. last_token_type # "START" /\ n # 1
            BY <1>2, <3>2 DEF StartIsAtRoot, n
        <3>4. last_token_type \in {"STATEMENT_END", "END_BLOCK", "START_BLOCK"}
            BY <1>2, <3>2, <3>3 DEF TypeOK
        <3> QED BY <3>3, <3>4 DEF MayEndBlock, n
    <2> QED BY <1>7, <2>2, <2>4, <2>5, <2>6 DEF BadTransition
<1>8. ~EndOfFile /\ Next /\ ~BadTransition => result' = "running"
    BY DEF Next, SkipComment, NewStatement, AddToken, EndStatement, StartBlock, EndBlock,
           NextRound, Take
<1> QED BY <1>6, <1>7, <1>8

-------------------------------------------------------------------------------
(* The tree and the tokens                                                     *)

\* Every statement of block b is complete.
Closed(b) == \/ \A l \in 1 .. Len(config_stack) : config_stack[l] # b
             \/ b = Top /\ last_token_type # "NORMAL"

Places == [Nat -> [Nat -> Nat]]

\* at[b][n] tokens come before the n-th statement of block b: its tokens are the next.
StatementAt(at, b, n) ==
    LET s == blocks[b][n]
        m == at[b][n] + Len(s.tokens)
    IN /\ Len(s.tokens) >= 1 /\ m <= Count
       /\ \A i \in 1 .. Len(s.tokens) : /\ All[at[b][n] + i].type = "NORMAL"
                                        /\ All[at[b][n] + i].value = s.tokens[i]
       /\ s.child # 0 => /\ s.child > b /\ m < Count
                         /\ All[m + 1].type = "START_BLOCK" /\ at[s.child][1] = m + 1

\* It is complete, and ends where the next statement or the end of the block is.
EndAt(at, b, n) ==
    LET s == blocks[b][n]
        m == at[b][n] + Len(s.tokens)
        j == at[b][n + 1]
    IN /\ j <= Count
       /\ \/ s.child = 0 /\ j = m + 1 /\ All[j].type = "STATEMENT_END"
          \/ /\ s.child # 0 /\ m + 1 < j /\ All[j].type = "END_BLOCK"
             /\ j = at[s.child][Len(blocks[s.child]) + 1] + 1
             /\ \A l \in 1 .. Len(config_stack) : config_stack[l] # s.child

LaidTokens(at) ==
    \A b \in 1 .. Len(blocks) : \A n \in 1 .. Len(blocks[b]) :
        StatementAt(at, b, n) /\ (n < Len(blocks[b]) \/ Closed(b) => EndAt(at, b, n))

\* Where the n-th statement of block b, its last, ends or goes on.
LaidUpTo(at, b, n) ==
    IF last_token_type = "NORMAL" THEN at[b][n] + Len(blocks[b][n].tokens) ELSE at[b][n + 1]

\* The statements of the tree stand in the file one after the other, up to the last
\* token that was read.
Laid(at) ==
    /\ at \in Places /\ at[1][1] = 0
    /\ LaidTokens(at)
    /\ Count = LaidUpTo(at, Top, Len(blocks[Top]))

LEMMA TokensOfStatement ==
    ASSUME IInv, NEW b \in 1 .. Len(blocks), NEW n \in 1 .. Len(blocks[b])
    PROVE  /\ blocks[b][n] \in Statement
           /\ blocks[b][n].tokens \in Seq(Nat \X Nat) /\ Len(blocks[b][n].tokens) \in Nat
           /\ blocks[b][n].child \in Nat /\ blocks[b][n].child \in 0 .. Len(blocks)
           /\ b \in Nat /\ n \in Nat
<1>1. blocks[b] \in Seq(Statement) /\ Len(blocks[b]) \in Nat /\ Len(blocks) \in Nat
    BY BlocksAreStatements, TopExists
<1>2. blocks[b][n] \in Statement
    BY <1>1
<1>3. blocks[b][n].child \in 0 .. Len(blocks)
    BY DEF IInv, Tree, ChildrenExist
<1>4. b \in Nat /\ n \in Nat
    BY <1>1
<1> QED BY <1>2, <1>3, <1>4 DEF Statement

LEMMA AtIsNat ==
    ASSUME NEW at \in Places, NEW b \in Nat, NEW n \in Nat
    PROVE  at[b][n] \in Nat /\ at[b][n + 1] \in Nat
<1>1. n + 1 \in Nat /\ at[b] \in [Nat -> Nat]
    BY DEF Places
<1> QED BY <1>1

\* What does not change stays where it is.
LEMMA StatementAtStays ==
    ASSUME UNCHANGED text, NEW at, NEW f, NEW b, NEW n, StatementAt(at, b, n),
           Count \in Nat, Count' \in Nat, Count <= Count',
           at[b][n] + Len(blocks[b][n].tokens) \in Nat,
           blocks'[b][n] = blocks[b][n], f[b][n] = at[b][n],
           blocks[b][n].child # 0 => f[blocks[b][n].child][1] = at[blocks[b][n].child][1]
    PROVE  StatementAt(f, b, n)'
<1>1. All' = All
    BY AllStays
<1> DEFINE m == at[b][n] + Len(blocks[b][n].tokens)
<1>2. m \in Nat /\ m <= Count /\ (blocks[b][n].child # 0 => m < Count)
    BY DEF StatementAt
<1> HIDE DEF m
<1>3. m <= Count' /\ (blocks[b][n].child # 0 => m < Count')
    BY <1>2
<1> QED BY <1>1, <1>3 DEF StatementAt, m

LEMMA EndAtStays ==
    ASSUME UNCHANGED text, NEW at, NEW f, NEW b, NEW n, EndAt(at, b, n),
           Count \in Nat, Count' \in Nat, Count <= Count', at[b][n + 1] \in Nat,
           blocks'[b][n] = blocks[b][n], f[b][n] = at[b][n], f[b][n + 1] = at[b][n + 1],
           blocks[b][n].child # 0 =>
              LET c == blocks[b][n].child
              IN f[c][Len(blocks'[c]) + 1] = at[c][Len(blocks[c]) + 1],
           \A k \in 1 .. Len(config_stack') : blocks[b][n].child # 0 =>
              \/ config_stack'[k] # blocks[b][n].child
              \/ \E l \in 1 .. Len(config_stack) : config_stack'[k] = config_stack[l]
    PROVE  EndAt(f, b, n)'
<1>1. All' = All
    BY AllStays
<1>2. at[b][n + 1] <= Count'
    BY DEF EndAt
<1>3. blocks[b][n].child # 0 /\ (\A l \in 1 .. Len(config_stack) : config_stack[l] # blocks[b][n].child)
      => \A k \in 1 .. Len(config_stack') : config_stack'[k] # blocks[b][n].child
    OBVIOUS
<1> QED BY <1>1, <1>2, <1>3 DEF EndAt

\* The same for a statement that a step leaves alone.
LEMMA PlaceStays ==
    ASSUME IInv, UNCHANGED text, NEW at \in Places, NEW f, LaidTokens(at),
           NEW b \in 1 .. Len(blocks), NEW n \in 1 .. Len(blocks[b]),
           Count \in Nat, Count' \in Nat, Count <= Count',
           blocks'[b][n] = blocks[b][n], f[b][n] = at[b][n],
           blocks[b][n].child # 0 => f[blocks[b][n].child][1] = at[blocks[b][n].child][1]
    PROVE  StatementAt(f, b, n)'
<1>1. Len(blocks[b][n].tokens) \in Nat /\ b \in Nat /\ n \in Nat
    BY TokensOfStatement
<1>2. at[b][n] \in Nat
    BY <1>1, AtIsNat
<1>3. at[b][n] + Len(blocks[b][n].tokens) \in Nat
    <2>1. \A x, y \in Nat : x + y \in Nat
        OBVIOUS
    <2> QED BY <1>1, <1>2, <2>1, Zenon
<1>4. StatementAt(at, b, n)
    BY DEF LaidTokens
<1> QED BY <1>3, <1>4, StatementAtStays

\* Top, and the number of statements there.
LEMMA TopIs ==
    ASSUME IInv
    PROVE  \E T \in 1 .. Len(blocks) : \E L \in Nat :
              /\ T = Top /\ L = Len(blocks[T]) /\ blocks[T] \in Seq(Statement)
              /\ Len(config_stack) \in 1 .. Len(config_stack)
              /\ config_stack[Len(config_stack)] = T
<1>1. /\ Len(config_stack) \in Nat \ {0} /\ Top \in 1 .. Len(blocks)
      /\ blocks[Top] \in Seq(Statement) /\ Len(blocks[Top]) \in Nat
      /\ config_stack[Len(config_stack)] = Top
    BY TopExists, OnStack
<1> QED BY <1>1

\* Every other statement than the one of a NORMAL token stays where it is.
LEMMA OthersStay ==
    ASSUME IInv, UNCHANGED <<text, config_stack>>, last_token_type' = "NORMAL",
           NEW at \in Places, LaidTokens(at),
           Count \in Nat, Count' \in Nat, Count <= Count',
           NEW T, T = Top, \A c \in 1 .. Len(blocks) : c # T => blocks'[c] = blocks[c],
           NEW b \in 1 .. Len(blocks), NEW n \in 1 .. Len(blocks[b]),
           blocks'[b][n] = blocks[b][n],
           b = T => n < Len(blocks[b]) \/ last_token_type # "NORMAL"
    PROVE  /\ StatementAt(at, b, n)'
           /\ n < Len(blocks'[b]) \/ Closed(b)' => EndAt(at, b, n)'
<1>1. /\ blocks[b][n].child \in 0 .. Len(blocks) /\ b \in Nat /\ n \in Nat
      /\ at[b][n + 1] \in Nat
    BY TokensOfStatement, AtIsNat
<1>2. /\ Len(config_stack) \in 1 .. Len(config_stack) /\ Len(blocks) \in Nat
      /\ config_stack[Len(config_stack)] = T
    <2>1. Len(config_stack) \in Nat \ {0} /\ Len(blocks) \in Nat
        BY TopExists
    <2>2. Len(config_stack) \in 1 .. Len(config_stack)
        BY <2>1
    <2> QED BY <2>1, <2>2 DEF Top
<1>3. StatementAt(at, b, n)'
    BY PlaceStays
<1>4. ASSUME n < Len(blocks'[b]) \/ Closed(b)' PROVE EndAt(at, b, n)'
    <2>1. n < Len(blocks[b]) \/ Closed(b)
        <3>1. CASE b = T
            BY <3>1 DEF Closed
        <3>2. CASE b # T
            BY <1>2, <1>4, <3>2 DEF Closed, Top
        <3> QED BY <3>1, <3>2
    <2>2. EndAt(at, b, n)
        BY <2>1 DEF LaidTokens
    <2>3. blocks[b][n].child # 0 => blocks'[blocks[b][n].child] = blocks[blocks[b][n].child]
        <3>1. blocks[b][n].child # 0 => blocks[b][n].child # T
            BY <1>2, <2>2 DEF EndAt
        <3>2. blocks[b][n].child # 0 => blocks[b][n].child \in 1 .. Len(blocks)
            <4>1. \A c \in 0 .. Len(blocks) : c # 0 => c \in 1 .. Len(blocks)
                BY <1>2
            <4> QED BY <1>1, <4>1, Zenon
        <3> QED BY <3>1, <3>2
    <2>4. \A k \in 1 .. Len(config_stack') :
             \E l \in 1 .. Len(config_stack) : config_stack'[k] = config_stack[l]
        OBVIOUS
    <2> QED BY <1>1, <2>2, <2>3, <2>4, EndAtStays
<1> QED BY <1>3, <1>4

\* NewStatement: the new statement is the token read last.
LEMMA LaidNewStatement ==
    ASSUME IInv, RestIsLeft, NewStatement, NEW at, Laid(at)
    PROVE  Laid(at)'
<1>1. PICK T \in 1 .. Len(blocks) : \E L \in Nat :
              /\ T = Top /\ L = Len(blocks[T]) /\ blocks[T] \in Seq(Statement)
              /\ Len(config_stack) \in 1 .. Len(config_stack)
              /\ config_stack[Len(config_stack)] = T
    BY TopIs
<1>2. PICK L \in Nat :
              /\ T = Top /\ L = Len(blocks[T]) /\ blocks[T] \in Seq(Statement)
              /\ Len(config_stack) \in 1 .. Len(config_stack)
              /\ config_stack[Len(config_stack)] = T
    BY <1>1
<1>3. PICK v : v = ParseToken(pos).value
    OBVIOUS
<1>4. PICK stm : stm = [tokens |-> <<v>>, child |-> 0]
    OBVIOUS
<1>5. /\ UNCHANGED <<text, config_stack>> /\ Take("NORMAL")
      /\ last_token_type # "NORMAL" /\ last_token_type' = "NORMAL"
      /\ blocks' = [blocks EXCEPT ![T] = Append(blocks[T], stm)]
    BY <1>2, <1>3, <1>4 DEF NewStatement, NextRound
<1>6. /\ Count' = Count + 1 /\ All' = All /\ Count \in Nat /\ Count' \in Nat /\ Count <= Count'
      /\ All[Count + 1].type = "NORMAL" /\ All[Count + 1].value = v
    <2>1. /\ Count' = Count + 1 /\ All' = All /\ Count \in 0 .. Size /\ Size \in Nat
          /\ All[Count + 1].type = "NORMAL" /\ All[Count + 1].value = v
        BY <1>3, <1>5, TakeReads DEF TokenKinds, IInv
    <2> QED BY <2>1
<1>7. stm \in Statement
    <2>1. v \in Nat \X Nat
        BY <1>3, <1>5, TakeMoves
    <2> QED BY <1>4, <2>1 DEF Statement
<1>8. /\ Len(blocks') = Len(blocks) /\ blocks'[T] = Append(blocks[T], stm)
      /\ \A b \in 1 .. Len(blocks) : b # T => blocks'[b] = blocks[b]
    <2>1. blocks \in Seq(Seq(Statement)) /\ Append(blocks[T], stm) \in Seq(Statement)
        BY <1>2, <1>7, BlocksAreStatements, BlockIsAppended
    <2> QED BY <1>5, <2>1
<1>9. /\ Len(blocks'[T]) = L + 1 /\ blocks'[T][L + 1] = stm
      /\ \A n \in 1 .. L : blocks'[T][n] = blocks[T][n]
    BY <1>2, <1>7, <1>8, BlockIsAppended
<1>10. at \in Places /\ at[1][1] = 0 /\ LaidTokens(at) /\ Count = at[T][L + 1]
    BY <1>2, <1>5 DEF Laid, LaidUpTo
<1>11. stm.tokens = <<v>> /\ stm.child = 0 /\ Len(<<v>>) = 1 /\ <<v>>[1] = v
    BY <1>4
<1>12. StatementAt(at, T, L + 1)'
    <2>1. \A i \in 1 .. 1 : i = 1
        OBVIOUS
    <2>2. Len(stm.tokens) = 1 /\ stm.tokens[1] = v /\ at[T][L + 1] + Len(stm.tokens) = Count'
        BY <1>6, <1>10, <1>11
    <2>3. \A i \in 1 .. Len(stm.tokens) : /\ All'[at[T][L + 1] + i].type = "NORMAL"
                                          /\ All'[at[T][L + 1] + i].value = stm.tokens[i]
        BY <1>6, <1>10, <2>1, <2>2
    <2>4. Len(stm.tokens) >= 1 /\ Count' <= Count'
        BY <1>6, <2>2
    <2> QED BY <1>9, <1>11, <2>2, <2>3, <2>4 DEF StatementAt
<1>13. Top' = T /\ ~Closed(T)'
    BY <1>2, <1>5 DEF Closed, Top
<1>14. ASSUME NEW b \in 1 .. Len(blocks), NEW n \in 1 .. Len(blocks[b])
       PROVE  /\ StatementAt(at, b, n)'
              /\ n < Len(blocks'[b]) \/ Closed(b)' => EndAt(at, b, n)'
    <2>1. blocks'[b][n] = blocks[b][n]
        BY <1>2, <1>8, <1>9
    <2> QED BY <1>2, <1>5, <1>6, <1>8, <1>10, <2>1, OthersStay
<1>15. LaidTokens(at)'
    <2>1. SUFFICES ASSUME NEW b \in 1 .. Len(blocks'), NEW n \in 1 .. Len(blocks'[b])
                   PROVE  /\ StatementAt(at, b, n)'
                          /\ n < Len(blocks'[b]) \/ Closed(b)' => EndAt(at, b, n)'
        BY DEF LaidTokens
    <2>2. b \in 1 .. Len(blocks)
        BY <1>8
    <2>3. CASE b = T /\ n = L + 1
        BY <1>2, <1>9, <1>12, <1>13, <2>3
    <2>4. CASE ~(b = T /\ n = L + 1)
        <3>1. n \in 1 .. Len(blocks[b])
            BY <1>2, <1>8, <1>9, <2>2, <2>4
        <3> QED BY <1>14, <2>2, <3>1
    <2> QED BY <2>3, <2>4
<1>16. Count' = LaidUpTo(at, Top, Len(blocks[Top]))'
    <2>1. Count' = at[T][L + 1] + Len(blocks'[T][L + 1].tokens)
        BY <1>6, <1>9, <1>10, <1>11
    <2>2. Top' = T /\ Len(blocks'[Top']) = L + 1 /\ last_token_type' = "NORMAL"
        BY <1>5, <1>9, <1>13
    <2> QED BY <2>1, <2>2 DEF LaidUpTo
<1> QED BY <1>10, <1>15, <1>16 DEF Laid

\* AddToken: the last statement goes on with the token.
LEMMA LaidAddToken ==
    ASSUME IInv, RestIsLeft, AddToken, NEW at, Laid(at)
    PROVE  Laid(at)'
<1>1. PICK T \in 1 .. Len(blocks) : \E L \in Nat :
              /\ T = Top /\ L = Len(blocks[T]) /\ blocks[T] \in Seq(Statement)
              /\ Len(config_stack) \in 1 .. Len(config_stack)
              /\ config_stack[Len(config_stack)] = T
    BY TopIs
<1>2. PICK L \in Nat :
              /\ T = Top /\ L = Len(blocks[T]) /\ blocks[T] \in Seq(Statement)
              /\ Len(config_stack) \in 1 .. Len(config_stack)
              /\ config_stack[Len(config_stack)] = T
    BY <1>1
<1>3. PICK v : v = ParseToken(pos).value
    OBVIOUS
<1>4. /\ UNCHANGED <<text, config_stack>> /\ Take("NORMAL")
      /\ last_token_type = "NORMAL" /\ last_token_type' = "NORMAL"
      /\ blocks' = [blocks EXCEPT ![T][L].tokens = Append(@, v)]
    BY <1>2, <1>3 DEF AddToken, NextRound
<1>5. /\ Count' = Count + 1 /\ All' = All /\ Count \in Nat /\ Count' \in Nat /\ Count <= Count'
      /\ All[Count + 1].type = "NORMAL" /\ All[Count + 1].value = v
    <2>1. /\ Count' = Count + 1 /\ All' = All /\ Count \in 0 .. Size /\ Size \in Nat
          /\ All[Count + 1].type = "NORMAL" /\ All[Count + 1].value = v
        BY <1>3, <1>4, TakeReads DEF TokenKinds, IInv
    <2> QED BY <2>1
<1>6. v \in Nat \X Nat
    BY <1>3, <1>4, TakeMoves
<1>7. /\ Len(blocks') = Len(blocks)
      /\ \A b \in 1 .. Len(blocks) : b # T => blocks'[b] = blocks[b]
      /\ Len(blocks'[T]) = L /\ L \in 1 .. L
      /\ \A n \in 1 .. L : n # L => blocks'[T][n] = blocks[T][n]
      /\ blocks'[T][L].child = 0
      /\ blocks'[T][L].tokens = Append(blocks[T][L].tokens, v)
    <2> DEFINE stm == [blocks[T][L] EXCEPT !.tokens = Append(@, v)]
               top == [blocks[T] EXCEPT ![L] = stm]
    <2>1. /\ L \in 1 .. L /\ blocks[T][L] \in Statement /\ blocks[T][L].child = 0
          /\ blocks \in Seq(Seq(Statement))
        BY <1>2, <1>4, TopExists DEF IInv, TypeOK
    <2>2. /\ stm \in Statement /\ stm.child = 0
          /\ stm.tokens = Append(blocks[T][L].tokens, v)
        BY <1>6, <2>1, TokensAreSet DEF Statement
    <2>3. blocks' = [blocks EXCEPT ![T] = top]
        BY <1>4
    <2> HIDE DEF stm
    <2>4. /\ top \in Seq(Statement) /\ Len(top) = L /\ top[L] = stm
          /\ \A n \in 1 .. L : n # L => top[n] = blocks[T][n]
        BY <1>2, <2>1, <2>2
    <2> HIDE DEF top
    <2>5. /\ Len(blocks') = Len(blocks) /\ blocks'[T] = top
          /\ \A b \in 1 .. Len(blocks) : b # T => blocks'[b] = blocks[b]
        BY <2>1, <2>3, <2>4
    <2> QED BY <2>1, <2>2, <2>4, <2>5
<1>8. PICK m \in Nat : m = Len(blocks[T][L].tokens)
    BY <1>2, <1>7, TokensOfStatement
<1>9. /\ Len(blocks'[T][L].tokens) = m + 1 /\ blocks'[T][L].tokens[m + 1] = v
      /\ \A i \in 1 .. m : blocks'[T][L].tokens[i] = blocks[T][L].tokens[i]
    <2>1. blocks[T][L].tokens \in Seq(Nat \X Nat)
        BY <1>2, <1>7, TokensOfStatement
    <2> QED BY <1>6, <1>7, <1>8, <2>1, BlockIsAppended
<1>10. at \in Places /\ at[1][1] = 0 /\ LaidTokens(at)
    BY DEF Laid
<1>11. PICK p \in Nat : p = at[T][L] /\ Count = p + m
    <2>1. T \in Nat
        BY <1>2, TopExists
    <2>2. at[T][L] \in Nat
        BY <1>10, <2>1, AtIsNat
    <2>3. Count = at[T][L] + m
        BY <1>2, <1>4, <1>8 DEF Laid, LaidUpTo
    <2> QED BY <2>2, <2>3
<1>12. StatementAt(at, T, L)'
    <2>1. StatementAt(at, T, L)
        BY <1>2, <1>7, <1>10 DEF LaidTokens
    <2>2. \A i \in 1 .. m : All[p + i].type = "NORMAL"
                            /\ All[p + i].value = blocks[T][L].tokens[i]
        BY <1>8, <1>11, <2>1 DEF StatementAt
    <2>3. \A i \in 1 .. m + 1 : i # m + 1 => i \in 1 .. m
        OBVIOUS
    <2>4. p + (m + 1) = Count + 1 /\ m + 1 >= 1
        <3>1. Count = p + m
            BY <1>11, Zenon
        <3> QED BY <3>1
    <2>5. ASSUME NEW i \in 1 .. m + 1
          PROVE  All'[p + i].type = "NORMAL" /\ All'[p + i].value = blocks'[T][L].tokens[i]
        <3>1. CASE i = m + 1
            BY <1>5, <1>9, <2>4, <3>1
        <3>2. CASE i # m + 1
            BY <1>5, <1>9, <2>2, <2>3, <3>2
        <3> QED BY <3>1, <3>2
    <2>6. p + (m + 1) <= Count'
        BY <1>5, <2>4
    <2> QED BY <1>7, <1>9, <1>11, <2>4, <2>5, <2>6 DEF StatementAt
<1>13. Top' = T /\ ~Closed(T)'
    BY <1>2, <1>4 DEF Closed, Top
<1>14. LaidTokens(at)'
    <2>1. SUFFICES ASSUME NEW b \in 1 .. Len(blocks'), NEW n \in 1 .. Len(blocks'[b])
                   PROVE  /\ StatementAt(at, b, n)'
                          /\ n < Len(blocks'[b]) \/ Closed(b)' => EndAt(at, b, n)'
        BY DEF LaidTokens
    <2>2. b \in 1 .. Len(blocks) /\ n \in 1 .. Len(blocks[b])
        BY <1>2, <1>7
    <2>3. CASE b = T /\ n = L
        BY <1>2, <1>7, <1>12, <1>13, <2>3
    <2>4. CASE ~(b = T /\ n = L)
        <3>1. blocks'[b][n] = blocks[b][n] /\ (b = T => n < Len(blocks[b]))
            BY <1>2, <1>7, <2>2, <2>4
        <3> QED BY <1>2, <1>4, <1>5, <1>7, <1>10, <2>2, <3>1, OthersStay
    <2> QED BY <2>3, <2>4
<1>15. Count' = LaidUpTo(at, Top, Len(blocks[Top]))'
    <2>1. Count' = at[T][L] + Len(blocks'[T][L].tokens)
        <3>1. Count' = Count + 1 /\ Count = p + m
            BY <1>5, <1>11, Zenon
        <3>2. Count' = p + (m + 1)
            BY <3>1
        <3> QED BY <1>9, <1>11, <3>2, Zenon
    <2>2. Top' = T /\ Len(blocks'[Top']) = L /\ last_token_type' = "NORMAL"
        BY <1>4, <1>7, <1>13
    <2> QED BY <2>1, <2>2 DEF LaidUpTo
<1> QED BY <1>10, <1>14, <1>15 DEF Laid

\* SkipComment: nothing that was laid moves.
LEMMA LaidSkipComment ==
    ASSUME IInv, RestIsLeft, SkipComment, NEW at, Laid(at)
    PROVE  Laid(at)'
<1>1. /\ UNCHANGED <<text, config_stack, blocks, last_token_type>> /\ Take("COMMENT")
    BY DEF SkipComment
<1>2. All' = All /\ Count' = Count
    BY <1>1, TakeReads DEF IInv
<1>3. \A b, n : StatementAt(at, b, n)' <=> StatementAt(at, b, n)
    BY <1>1, <1>2 DEF StatementAt
<1>4. \A b, n : EndAt(at, b, n)' <=> EndAt(at, b, n)
    BY <1>1, <1>2 DEF EndAt
<1>5. \A b : Closed(b)' <=> Closed(b)
    BY <1>1 DEF Closed, Top
<1>6. LaidTokens(at)' <=> LaidTokens(at)
    BY <1>1, <1>3, <1>4, <1>5 DEF LaidTokens
<1>7. LaidUpTo(at, Top, Len(blocks[Top]))' = LaidUpTo(at, Top, Len(blocks[Top]))
    BY <1>1 DEF LaidUpTo, Top
<1> QED BY <1>2, <1>6, <1>7 DEF Laid

\* The N-th token was read, the last one of the L-th statement of block P, then on top.
EndIsRead(P, L, N) ==
    /\ UNCHANGED <<text, blocks>> /\ last_token_type' # "NORMAL"
    /\ Count \in Nat /\ N = Count + 1 /\ Count' = N
    /\ P = Top' /\ L >= 1 /\ L = Len(blocks[P])
    /\ \E k \in 1 .. Len(config_stack) : config_stack[k] = P
    /\ \A k \in 1 .. Len(config_stack') :
          \E l \in 1 .. Len(config_stack) : config_stack'[k] = config_stack[l]
    /\ \A b \in 1 .. Len(blocks) : Closed(b)' => Closed(b) \/ b = P

\* f are the places when the L-th statement of block P, then the last, ends at N.
EndIsPut(f, at, P, L, N) ==
    /\ f \in Places /\ f[P][L + 1] = N
    /\ \A b, n \in Nat : b # P \/ n # L + 1 => f[b][n] = at[b][n]

\* The statement that ends with the token read last is the last one of the block then
\* on top, and the next one comes after the token.
LEMMA LaidEnd ==
    ASSUME IInv, NEW at, Laid(at), NEW N \in Nat, NEW P \in 1 .. Len(blocks), NEW L \in Nat,
           NEW f, EndIsRead(P, L, N), EndIsPut(f, at, P, L, N), EndAt(f, P, L)'
    PROVE  Laid(f)'
<1>1. /\ UNCHANGED <<text, blocks>> /\ last_token_type' # "NORMAL"
      /\ Count \in Nat /\ N = Count + 1 /\ Count' = N
    BY Zenon DEF EndIsRead
<1>5. /\ P = Top' /\ L >= 1 /\ L = Len(blocks[P])
      /\ \E k \in 1 .. Len(config_stack) : config_stack[k] = P
      /\ \A k \in 1 .. Len(config_stack') :
            \E l \in 1 .. Len(config_stack) : config_stack'[k] = config_stack[l]
      /\ \A b \in 1 .. Len(blocks) : Closed(b)' => Closed(b) \/ b = P
    BY Zenon DEF EndIsRead
<1>2. /\ Count' = N /\ Count' \in Nat /\ Count <= Count'
    BY <1>1
<1>3. at \in Places /\ at[1][1] = 0 /\ LaidTokens(at)
    BY DEF Laid
<1>4. P \in Nat /\ L + 1 \in Nat /\ L + 1 # 1 /\ Len(blocks) \in Nat
    BY <1>5, TopExists
<1>10. /\ f \in Places /\ f[P][L + 1] = N
       /\ \A b, n \in Nat : b # P \/ n # L + 1 => f[b][n] = at[b][n]
    BY Zenon DEF EndIsPut
<1>6. f[1][1] = 0
    <2>1. 1 \in Nat
        OBVIOUS
    <2>2. f[1][1] = at[1][1]
        BY <1>4, <1>10, <2>1, Zenon
    <2> QED BY <1>3, <2>2, Zenon
<1>7. ASSUME NEW b \in 1 .. Len(blocks), NEW n \in 1 .. Len(blocks[b])
      PROVE  /\ StatementAt(f, b, n)'
             /\ n < Len(blocks'[b]) \/ Closed(b)' => EndAt(f, b, n)'
    <2>1. /\ blocks[b][n].child \in 0 .. Len(blocks) /\ b \in Nat /\ n \in Nat
          /\ blocks[b][n].child \in Nat /\ at[b][n + 1] \in Nat
        BY <1>3, TokensOfStatement, AtIsNat
    <2>2. b = P => n <= L
        BY <1>5
    <2>3. f[b][n] = at[b][n]
        <3>1. n # L + 1 \/ b # P
            BY <2>1, <2>2
        <3> QED BY <1>10, <2>1, <3>1, Zenon
    <2>4. f[blocks[b][n].child][1] = at[blocks[b][n].child][1]
        <3>1. 1 \in Nat
            OBVIOUS
        <3>2. PICK c \in Nat : c = blocks[b][n].child
            BY <2>1
        <3>3. f[c][1] = at[c][1]
            BY <1>4, <1>10, <3>1, <3>2, Zenon
        <3> QED BY <3>2, <3>3, Zenon
    <2>5. blocks'[b][n] = blocks[b][n]
        BY <1>1
    <2>6. StatementAt(f, b, n)'
        BY <1>1, <1>2, <1>3, <2>3, <2>4, <2>5, PlaceStays
    <2>7. ASSUME n < Len(blocks'[b]) \/ Closed(b)' PROVE EndAt(f, b, n)'
        <3>1. CASE b = P /\ n = L
            BY <3>1
        <3>2. CASE ~(b = P /\ n = L)
            <4>1. n < Len(blocks[b]) \/ Closed(b)
                <5>1. CASE b = P
                    <6>1. n < L
                        BY <2>1, <2>2, <3>2, <5>1
                    <6> QED BY <1>5, <5>1, <6>1
                <5>2. CASE b # P
                    BY <1>1, <1>5, <2>7, <5>2
                <5> QED BY <5>1, <5>2
            <4>2. EndAt(at, b, n)
                BY <1>3, <4>1 DEF LaidTokens
            <4>3. f[b][n + 1] = at[b][n + 1]
                <5>1. n + 1 # L + 1 \/ b # P
                    BY <2>1, <3>2
                <5>2. n + 1 \in Nat
                    BY <2>1
                <5>3. PICK k \in Nat : k = n + 1
                    BY <5>2
                <5>4. f[b][k] = at[b][k]
                    BY <1>10, <2>1, <5>1, <5>3, Zenon
                <5> QED BY <5>3, <5>4, Zenon
            <4>4. blocks[b][n].child # 0 =>
                     LET c == blocks[b][n].child
                     IN f[c][Len(blocks'[c]) + 1] = at[c][Len(blocks[c]) + 1]
                <5>1. SUFFICES ASSUME NEW c \in Nat, c = blocks[b][n].child, c # 0
                               PROVE  f[c][Len(blocks[c]) + 1] = at[c][Len(blocks[c]) + 1]
                    BY <1>1, <2>1, Zenon
                <5>2. c # P
                    BY <1>5, <4>2, <5>1 DEF EndAt
                <5>3. c \in 1 .. Len(blocks)
                    BY <1>4, <2>1, <5>1
                <5>4. Len(blocks[c]) + 1 \in Nat
                    BY <5>3, BlocksAreStatements
                <5> QED BY <1>10, <5>1, <5>2, <5>4, Zenon
            <4> QED BY <1>1, <1>2, <1>5, <2>1, <2>3, <2>5, <4>2, <4>3, <4>4, EndAtStays
        <3> QED BY <3>1, <3>2
    <2> QED BY <2>6, <2>7
<1>8. LaidTokens(f)'
    BY <1>1, <1>7 DEF LaidTokens
<1>9. Count' = LaidUpTo(f, Top, Len(blocks[Top]))'
    BY <1>1, <1>2, <1>5, <1>10 DEF LaidUpTo
<1> QED BY <1>6, <1>8, <1>9, <1>10 DEF Laid

LEMMA EndCanBePut ==
    ASSUME NEW at \in Places, NEW P \in Nat, NEW L \in Nat, NEW N \in Nat
    PROVE  \E f : EndIsPut(f, at, P, L, N)
<1>1. PICK M \in Nat : M = L + 1
    OBVIOUS
<1> DEFINE f == [at EXCEPT ![P][M] = N]
<1>2. f \in Places
    BY DEF Places
<1>3. f[P][M] = N /\ \A b, n \in Nat : b # P \/ n # M => f[b][n] = at[b][n]
    BY DEF Places
<1> HIDE DEF f
<1> QED BY <1>1, <1>2, <1>3 DEF EndIsPut

LEMMA EndAtIs ==
    ASSUME NEW f, NEW b, NEW n, NEW s, s = blocks'[b][n],
           NEW m, m = f[b][n] + Len(s.tokens), NEW j, j = f[b][n + 1], j <= Count',
           \/ s.child = 0 /\ j = m + 1 /\ All'[j].type = "STATEMENT_END"
           \/ /\ s.child # 0 /\ m + 1 < j /\ All'[j].type = "END_BLOCK"
              /\ j = f[s.child][Len(blocks'[s.child]) + 1] + 1
              /\ \A l \in 1 .. Len(config_stack') : config_stack'[l] # s.child
    PROVE  EndAt(f, b, n)'
BY DEF EndAt

LEMMA LaidEndStatement ==
    ASSUME IInv, RestIsLeft, EndStatement, NEW at, Laid(at)
    PROVE  \E f : Laid(f)'
<1>1. PICK T \in 1 .. Len(blocks) : \E L \in Nat :
              /\ T = Top /\ L = Len(blocks[T]) /\ blocks[T] \in Seq(Statement)
              /\ Len(config_stack) \in 1 .. Len(config_stack)
              /\ config_stack[Len(config_stack)] = T
    BY TopIs
<1>2. PICK L \in Nat :
              /\ T = Top /\ L = Len(blocks[T]) /\ blocks[T] \in Seq(Statement)
              /\ Len(config_stack) \in 1 .. Len(config_stack)
              /\ config_stack[Len(config_stack)] = T
    BY <1>1
<1>3. /\ UNCHANGED <<text, config_stack, blocks>> /\ Take("STATEMENT_END")
      /\ last_token_type = "NORMAL" /\ last_token_type' = "STATEMENT_END"
    BY DEF EndStatement, NextRound
<1>4. /\ Count' = Count + 1 /\ All' = All /\ Count \in Nat
      /\ All[Count + 1].type = "STATEMENT_END"
    <2>1. /\ Count' = Count + 1 /\ All' = All /\ Count \in 0 .. Size /\ Size \in Nat
          /\ All[Count + 1].type = "STATEMENT_END"
        BY <1>3, TakeReads DEF TokenKinds, IInv
    <2> QED BY <2>1
<1>5. L >= 1 /\ L \in 1 .. Len(blocks[T]) /\ blocks[T][L].child = 0
    <2>1. L \in 1 .. L /\ blocks[T][L].child = 0
        BY <1>2, <1>3, TopExists
    <2> QED BY <1>2, <2>1
<1>6. Top' = T /\ \A b \in 1 .. Len(blocks) : Closed(b)' => Closed(b) \/ b = T
    BY <1>2, <1>3 DEF Closed, Top
<1>7. at \in Places /\ Count = at[T][L] + Len(blocks[T][L].tokens)
    BY <1>2, <1>3 DEF Laid, LaidUpTo
<1>14. PICK N \in Nat : N = Count + 1
    BY <1>4
<1>15. PICK f : EndIsPut(f, at, T, L, N)
    <2>1. T \in Nat
        BY TopExists
    <2>2. at \in Places
        BY <1>7, Zenon
    <2> QED BY <2>1, <2>2, EndCanBePut, Zenon
<1>8. /\ f \in Places /\ f[T][L + 1] = N
      /\ \A b, n \in Nat : b # T \/ n # L + 1 => f[b][n] = at[b][n]
    BY <1>15, Zenon DEF EndIsPut
<1>9. EndAt(f, T, L)'
    <2>1. f[T][L] = at[T][L]
        <3>1. T \in Nat /\ L # L + 1
            BY TopExists
        <3> QED BY <1>8, <3>1, Zenon
    <2>2. N <= Count' /\ All'[N].type = "STATEMENT_END" /\ N = Count + 1
        BY <1>4, <1>14
    <2>3. PICK s : s = blocks'[T][L]
        OBVIOUS
    <2>4. s.child = 0 /\ Count = f[T][L] + Len(s.tokens)
        BY <1>3, <1>5, <1>7, <2>1, <2>3
    <2> QED BY <1>8, <2>2, <2>3, <2>4, EndAtIs
<1>10. Laid(f)'
    <2>1. \A k \in 1 .. Len(config_stack') :
              \E l \in 1 .. Len(config_stack) : config_stack'[k] = config_stack[l]
        BY <1>3
    <2>2. UNCHANGED <<text, blocks>> /\ last_token_type' # "NORMAL"
        BY <1>3
    <2>3. Count \in Nat /\ N = Count + 1 /\ Count' = N
        BY <1>4, <1>14
    <2>4. L = Len(blocks[T]) /\ \E k \in 1 .. Len(config_stack) : config_stack[k] = T
        BY <1>2
    <2>5. EndIsRead(T, L, N)
        BY <1>5, <1>6, <2>1, <2>2, <2>3, <2>4, Zenon DEF EndIsRead
    <2> QED BY <1>9, <1>15, <2>5, LaidEnd
<1> QED BY <1>10

\* What EndBlock pops, and what then is on top.
LEMMA BelowTop ==
    ASSUME IInv, Len(config_stack) # 1,
           config_stack' = SubSeq(config_stack, 1, Len(config_stack) - 1)
    PROVE  \E P \in 1 .. Len(blocks) : \E L \in Nat :
              /\ P = Top' /\ L >= 1 /\ L = Len(blocks[P]) /\ blocks[P][L].child = Top
              /\ P < Top
              /\ \E k \in 1 .. Len(config_stack) : config_stack[k] = P
              /\ \A k \in 1 .. Len(config_stack') :
                    /\ \E l \in 1 .. Len(config_stack) : config_stack'[k] = config_stack[l]
                    /\ config_stack'[k] # Top
              /\ \A l \in 1 .. Len(config_stack) :
                    \/ config_stack[l] = Top
                    \/ \E k \in 1 .. Len(config_stack') : config_stack'[k] = config_stack[l]
<1>1. PICK n \in Nat : n = Len(config_stack) - 1 /\ n >= 1 /\ Len(config_stack) = n + 1
    <2>1. Len(config_stack) \in Nat \ {0}
        BY TopExists
    <2>2. \A x \in Nat \ {0} : x # 1 => x - 1 \in Nat /\ x - 1 >= 1 /\ x = (x - 1) + 1
        OBVIOUS
    <2> QED BY <2>1, <2>2
<1>2. /\ config_stack \in Seq(Nat) /\ Top = config_stack[n + 1] /\ Len(blocks) \in Nat
      /\ \A k \in 1 .. n + 1 : config_stack[k] \in 1 .. Len(blocks)
    BY <1>1, TopExists, OnStack DEF IInv, TypeOK
<1>3. Len(config_stack') = n /\ \A k \in 1 .. n : config_stack'[k] = config_stack[k]
    <2>1. \A k \in 1 .. n : config_stack[k] \in Nat
        BY <1>1, <1>2
    <2>2. config_stack' = SubSeq(config_stack, 1, n)
        BY <1>1
    <2>3. /\ Len(SubSeq(config_stack, 1, n)) = IF 1 <= n THEN n - 1 + 1 ELSE 0
          /\ \A k \in 1 .. n - 1 + 1 : SubSeq(config_stack, 1, n)[k] = config_stack[1 + k - 1]
        BY <2>1, SubSeqProperties
    <2>4. n - 1 + 1 = n /\ \A k \in 1 .. n : 1 + k - 1 = k
        OBVIOUS
    <2> QED BY <1>1, <2>2, <2>3, <2>4
<1>4. PICK P \in 1 .. Len(blocks) : P = config_stack[n]
    <2>1. n \in 1 .. n + 1
        BY <1>1
    <2> QED BY <1>2, <2>1
<1>5. Top' = P
    <2>1. n \in 1 .. n
        BY <1>1
    <2> QED BY <1>3, <1>4, <2>1 DEF Top
<1>6. blocks[P] # << >> /\ Back(blocks[P]).child = Top /\ blocks[P] \in Seq(Statement)
    <2>1. n + 1 \in 1 .. Len(config_stack) /\ n + 1 > 1 /\ (n + 1) - 1 = n
        BY <1>1
    <2> QED BY <1>2, <1>4, <2>1, OnPath, BlocksAreStatements
<1>7. PICK L \in Nat : L = Len(blocks[P]) /\ L >= 1
    BY <1>6
<1>8. \A k \in 1 .. n : config_stack[k] < Top
    <2>1. \A k \in 1 .. n : k \in 1 .. Len(config_stack) /\ n + 1 \in 1 .. Len(config_stack) /\ k < n + 1
        BY <1>1
    <2> QED BY <1>2, <2>1 DEF IInv, Tree, StackIncreases
<1>9. Top \in Nat /\ \A k \in 1 .. n : config_stack[k] \in Nat
    <2>1. Top \in Nat
        BY TopExists
    <2>2. \A k \in 1 .. n : k \in 1 .. n + 1
        OBVIOUS
    <2>3. \A x \in 1 .. Len(blocks) : x \in Nat
        BY <1>2
    <2> QED BY <1>2, <2>1, <2>2, <2>3, Zenon
<1>10. P < Top
    BY <1>1, <1>4, <1>8
<1>11. \A k \in 1 .. n : k \in 1 .. Len(config_stack) /\ config_stack[k] # Top
    BY <1>1, <1>8, <1>9
<1>12. \A l \in 1 .. Len(config_stack) : config_stack[l] = Top \/ l \in 1 .. n
    BY <1>1, <1>2
<1>13. \E k \in 1 .. Len(config_stack) : config_stack[k] = P
    BY <1>1, <1>4, <1>11
<1> QED BY <1>3, <1>5, <1>6, <1>7, <1>10, <1>11, <1>12, <1>13 DEF Back

LEMMA LaidEndBlock ==
    ASSUME IInv, RestIsLeft, EndBlock, NEW at, Laid(at)
    PROVE  \E f : Laid(f)'
<1>1. /\ UNCHANGED <<text, blocks>> /\ Take("END_BLOCK")
      /\ last_token_type \in {"STATEMENT_END", "END_BLOCK", "START_BLOCK"}
      /\ last_token_type # "NORMAL" /\ last_token_type' = "END_BLOCK"
      /\ Len(config_stack) # 1
      /\ config_stack' = SubSeq(config_stack, 1, Len(config_stack) - 1)
    BY DEF EndBlock, NextRound, MayEndBlock
<1>2. PICK c \in 1 .. Len(blocks) : c = Top
    BY TopExists
<1>3. PICK P \in 1 .. Len(blocks) : \E L \in Nat :
              /\ P = Top' /\ L >= 1 /\ L = Len(blocks[P]) /\ blocks[P][L].child = c
              /\ P < c
              /\ \E k \in 1 .. Len(config_stack) : config_stack[k] = P
              /\ \A k \in 1 .. Len(config_stack') :
                    /\ \E l \in 1 .. Len(config_stack) : config_stack'[k] = config_stack[l]
                    /\ config_stack'[k] # c
              /\ \A l \in 1 .. Len(config_stack) :
                    \/ config_stack[l] = c
                    \/ \E k \in 1 .. Len(config_stack') : config_stack'[k] = config_stack[l]
    BY <1>1, <1>2, BelowTop
<1>4. PICK L \in Nat :
              /\ P = Top' /\ L >= 1 /\ L = Len(blocks[P]) /\ blocks[P][L].child = c
              /\ P < c
              /\ \E k \in 1 .. Len(config_stack) : config_stack[k] = P
              /\ \A k \in 1 .. Len(config_stack') :
                    /\ \E l \in 1 .. Len(config_stack) : config_stack'[k] = config_stack[l]
                    /\ config_stack'[k] # c
              /\ \A l \in 1 .. Len(config_stack) :
                    \/ config_stack[l] = c
                    \/ \E k \in 1 .. Len(config_stack') : config_stack'[k] = config_stack[l]
    BY <1>3
<1>5. /\ Count' = Count + 1 /\ All' = All /\ Count \in Nat
      /\ All[Count + 1].type = "END_BLOCK"
    <2>1. /\ Count' = Count + 1 /\ All' = All /\ Count \in 0 .. Size /\ Size \in Nat
          /\ All[Count + 1].type = "END_BLOCK"
        BY <1>1, TakeReads DEF TokenKinds, IInv
    <2> QED BY <2>1
<1>6. \A b \in 1 .. Len(blocks) : Closed(b)' => Closed(b) \/ b = P
    <2>1. SUFFICES ASSUME NEW b \in 1 .. Len(blocks), Closed(b)', b # P PROVE Closed(b)
        OBVIOUS
    <2>2. \A k \in 1 .. Len(config_stack') : config_stack'[k] # b
        BY <1>4, <2>1 DEF Closed
    <2>3. CASE b = c
        BY <1>1, <1>2, <2>3 DEF Closed
    <2>4. CASE b # c
        <3>1. SUFFICES ASSUME NEW l \in 1 .. Len(config_stack), config_stack[l] = b PROVE FALSE
            BY DEF Closed
        <3>2. PICK k \in 1 .. Len(config_stack') : config_stack'[k] = config_stack[l]
            BY <1>4, <2>4, <3>1, Zenon
        <3> QED BY <2>2, <3>1, <3>2, Zenon
    <2> QED BY <2>3, <2>4
<1>7. at \in Places /\ Count = at[c][Len(blocks[c]) + 1]
    BY <1>1, <1>2 DEF Laid, LaidUpTo
<1>14. PICK N \in Nat : N = Count + 1
    BY <1>5
<1>15. PICK f : EndIsPut(f, at, P, L, N)
    <2>1. P \in Nat
        BY TopExists
    <2>2. at \in Places
        BY <1>7, Zenon
    <2> QED BY <2>1, <2>2, EndCanBePut, Zenon
<1>8. /\ f \in Places /\ f[P][L + 1] = N
      /\ \A b, n \in Nat : b # P \/ n # L + 1 => f[b][n] = at[b][n]
    BY <1>15, Zenon DEF EndIsPut
<1>9. L \in 1 .. Len(blocks[P]) /\ c # 0 /\ c \in Nat /\ P \in Nat /\ c # P
    BY <1>4, TopExists
<1>10. PICK m \in Nat : m = at[P][L] + Len(blocks[P][L].tokens)
    <2>1. Len(blocks[P][L].tokens) \in Nat /\ at[P][L] \in Nat
        BY <1>7, <1>9, TokensOfStatement, AtIsNat
    <2>2. \A x, y \in Nat : x + y \in Nat
        OBVIOUS
    <2> QED BY <2>1, <2>2, Zenon
<1>11. m < Count
    BY <1>4, <1>9, <1>10 DEF Laid, LaidTokens, StatementAt
<1>12. EndAt(f, P, L)'
    <2>1. f[P][L] = at[P][L]
        <3>1. L # L + 1
            OBVIOUS
        <3> QED BY <1>8, <1>9, <3>1, Zenon
    <2>2. f[c][Len(blocks[c]) + 1] = Count
        <3>1. Len(blocks[c]) + 1 \in Nat
            BY BlocksAreStatements
        <3> QED BY <1>7, <1>8, <1>9, <3>1, Zenon
    <2>3. N <= Count' /\ m + 1 < N /\ All'[N].type = "END_BLOCK" /\ N = Count + 1
        BY <1>5, <1>11, <1>14
    <2>4. PICK s : s = blocks'[P][L]
        OBVIOUS
    <2>5. /\ s.child # 0 /\ m = f[P][L] + Len(s.tokens)
          /\ N = f[s.child][Len(blocks'[s.child]) + 1] + 1
          /\ \A l \in 1 .. Len(config_stack') : config_stack'[l] # s.child
        BY <1>1, <1>4, <1>9, <1>10, <2>1, <2>2, <2>3, <2>4
    <2> QED BY <1>8, <2>3, <2>4, <2>5, EndAtIs
<1>13. Laid(f)'
    <2>1. UNCHANGED <<text, blocks>> /\ last_token_type' # "NORMAL"
        BY <1>1
    <2>2. Count \in Nat /\ N = Count + 1 /\ Count' = N
        BY <1>5, <1>14
    <2>3. \A k \in 1 .. Len(config_stack') :
              \E l \in 1 .. Len(config_stack) : config_stack'[k] = config_stack[l]
        BY <1>4
    <2>4. /\ P = Top' /\ L >= 1 /\ L = Len(blocks[P])
          /\ \E k \in 1 .. Len(config_stack) : config_stack[k] = P
        BY <1>4
    <2>5. EndIsRead(P, L, N)
        BY <1>6, <2>1, <2>2, <2>3, <2>4, Zenon DEF EndIsRead
    <2> QED BY <1>12, <1>15, <2>5, LaidEnd
<1> QED BY <1>13

\* f are the places when block c begins at N.
BeginIsPut(f, at, c, N) ==
    /\ f \in Places /\ f[c][1] = N
    /\ \A b \in Nat : b # c => f[b] = at[b]

LEMMA BeginCanBePut ==
    ASSUME NEW at \in Places, NEW c \in Nat, NEW N \in Nat
    PROVE  \E f : BeginIsPut(f, at, c, N)
<1> DEFINE f == [at EXCEPT ![c] = [n \in Nat |-> N]]
<1>1. f \in Places /\ f[c][1] = N /\ \A b \in Nat : b # c => f[b] = at[b]
    BY DEF Places
<1> HIDE DEF f
<1> QED BY <1>1 DEF BeginIsPut

LEMMA LaidStartBlock ==
    ASSUME IInv, RestIsLeft, StartBlock, NEW at, Laid(at)
    PROVE  \E f : Laid(f)'
<1>1. PICK T \in 1 .. Len(blocks) : \E L \in Nat :
              /\ T = Top /\ L = Len(blocks[T]) /\ blocks[T] \in Seq(Statement)
              /\ Len(config_stack) \in 1 .. Len(config_stack)
              /\ config_stack[Len(config_stack)] = T
    BY TopIs
<1>2. PICK L \in Nat :
              /\ T = Top /\ L = Len(blocks[T]) /\ blocks[T] \in Seq(Statement)
              /\ Len(config_stack) \in 1 .. Len(config_stack)
              /\ config_stack[Len(config_stack)] = T
    BY <1>1
<1>3. /\ UNCHANGED text /\ Take("START_BLOCK")
      /\ last_token_type = "NORMAL" /\ last_token_type' = "START_BLOCK"
      /\ blocks' = Append([blocks EXCEPT ![Top][Len(blocks[Top])].child = Len(blocks) + 1],
                        << >>)
      /\ config_stack' = Append(config_stack, Len(blocks) + 1)
    BY DEF StartBlock, NextRound
<1>4. /\ Count' = Count + 1 /\ All' = All /\ Count \in Nat
      /\ All[Count + 1].type = "START_BLOCK"
    <2>1. /\ Count' = Count + 1 /\ All' = All /\ Count \in 0 .. Size /\ Size \in Nat
          /\ All[Count + 1].type = "START_BLOCK"
        BY <1>3, TakeReads DEF TokenKinds, IInv
    <2> QED BY <2>1
<1>5. PICK c \in Nat : c = Len(blocks) + 1 /\ c # 0 /\ Len(blocks) \in Nat
                       /\ \A b \in 0 .. Len(blocks) : b # c /\ b < c /\ b \in Nat
    <2>1. Len(blocks) \in Nat
        BY TopExists
    <2> QED BY <2>1
<1>6. /\ Len(blocks') = c /\ blocks'[c] = << >>
      /\ \A b \in 1 .. Len(blocks) : Len(blocks'[b]) = Len(blocks[b])
      /\ blocks'[T][L].child = c /\ blocks'[T][L].tokens = blocks[T][L].tokens
      /\ \A b \in 1 .. Len(blocks) : b # T => blocks'[b] = blocks[b]
      /\ \A n \in 1 .. L : n # L => blocks'[T][n] = blocks[T][n]
    BY <1>2, <1>3, <1>5, BlocksAfterStart
<1>7. /\ Top' = c
      /\ \A k \in 1 .. Len(config_stack') :
            config_stack'[k] = c \/ \E l \in 1 .. Len(config_stack) : config_stack'[k] = config_stack[l]
      /\ \A l \in 1 .. Len(config_stack) :
            \E k \in 1 .. Len(config_stack') : config_stack'[k] = config_stack[l]
    <2>1. PICK d \in Nat : d = Len(config_stack)
        BY TopExists
    <2>2. config_stack \in Seq(Nat) /\ config_stack' = Append(config_stack, c)
        BY <1>3, <1>5 DEF IInv, TypeOK
    <2>3. /\ Len(config_stack') = d + 1 /\ config_stack'[d + 1] = c
          /\ \A k \in 1 .. d : config_stack'[k] = config_stack[k]
        BY <2>1, <2>2, BlockIsAppended
    <2>4. \A k \in 1 .. d + 1 : k = d + 1 \/ k \in 1 .. d
        OBVIOUS
    <2>5. \A k \in 1 .. d : k \in 1 .. d + 1
        OBVIOUS
    <2> QED BY <2>1, <2>3, <2>4, <2>5 DEF Top
<1>8. at \in Places /\ at[1][1] = 0 /\ LaidTokens(at)
    BY DEF Laid
<1>9. PICK N \in Nat : N = Count + 1 /\ Count' = N /\ Count' \in Nat /\ Count <= Count' /\ Count < Count'
    BY <1>4
<1>10. PICK f : BeginIsPut(f, at, c, N)
    BY <1>8, BeginCanBePut, Zenon
<1>11. f \in Places /\ f[c][1] = N /\ \A b \in Nat : b # c => f[b] = at[b]
    BY <1>10, Zenon DEF BeginIsPut
<1>12. \A b \in 0 .. Len(blocks) : f[b] = at[b] /\ b \in Nat
    BY <1>5, <1>11, Zenon
<1>13. ASSUME NEW b \in 1 .. Len(blocks), NEW n \in 1 .. Len(blocks[b])
       PROVE  /\ b \in 0 .. Len(blocks) /\ b \in Nat /\ n \in Nat
              /\ blocks[b][n].child \in 0 .. Len(blocks)
              /\ at[b][n + 1] \in Nat /\ f[b] = at[b]
              /\ f[blocks[b][n].child] = at[blocks[b][n].child]
    <2>1. /\ b \in Nat /\ n \in Nat /\ blocks[b][n].child \in 0 .. Len(blocks)
          /\ at[b][n + 1] \in Nat
        BY <1>8, TokensOfStatement, AtIsNat
    <2>2. b \in 0 .. Len(blocks)
        BY <1>5
    <2> QED BY <1>12, <2>1, <2>2, Zenon
<1>14. L \in 1 .. Len(blocks[T]) /\ blocks[T][L].child = 0
    <2>1. L \in 1 .. L /\ blocks[T][L].child = 0
        BY <1>2, <1>3, TopExists
    <2> QED BY <1>2, <2>1
<1>15. StatementAt(f, T, L)'
    <2>1. Count = at[T][L] + Len(blocks[T][L].tokens)
        BY <1>2, <1>3 DEF Laid, LaidUpTo
    <2>2. /\ Len(blocks[T][L].tokens) >= 1
          /\ \A i \in 1 .. Len(blocks[T][L].tokens) :
                /\ All[at[T][L] + i].type = "NORMAL"
                /\ All[at[T][L] + i].value = blocks[T][L].tokens[i]
        <3>1. StatementAt(at, T, L)
            BY <1>8, <1>14 DEF LaidTokens
        <3> QED BY <3>1 DEF StatementAt
    <2>3. f[T] = at[T] /\ T < c
        BY <1>5, <1>13, <1>14
    <2>4. f[c][1] = Count + 1 /\ All'[Count + 1].type = "START_BLOCK"
        BY <1>4, <1>9, <1>11
    <2>5. /\ blocks'[T][L].child = c /\ blocks'[T][L].tokens = blocks[T][L].tokens
          /\ All' = All
        BY <1>4, <1>6
    <2>6. Count = f[T][L] + Len(blocks'[T][L].tokens) /\ Count <= Count' /\ Count < Count'
        BY <1>9, <2>1, <2>3, <2>5
    <2>7. /\ Len(blocks'[T][L].tokens) >= 1
          /\ \A i \in 1 .. Len(blocks'[T][L].tokens) :
                /\ All'[f[T][L] + i].type = "NORMAL"
                /\ All'[f[T][L] + i].value = blocks'[T][L].tokens[i]
        BY <2>2, <2>3, <2>5
    <2> HIDE <1>4, <1>9
    <2> QED BY <2>3, <2>4, <2>5, <2>6, <2>7 DEF StatementAt
<1>16. ~Closed(T)'
    <2>1. T # c
        BY <1>5
    <2> QED BY <1>2, <1>7, <2>1 DEF Closed
<1>17. ASSUME NEW b \in 1 .. Len(blocks), NEW n \in 1 .. Len(blocks[b]), b # T \/ n # L
       PROVE  /\ StatementAt(f, b, n)'
              /\ n < Len(blocks'[b]) \/ Closed(b)' => EndAt(f, b, n)'
    <2>1. blocks'[b][n] = blocks[b][n]
        BY <1>2, <1>6, <1>17
    <2>2. StatementAt(f, b, n)'
        BY <1>3, <1>4, <1>8, <1>9, <1>13, <2>1, PlaceStays
    <2>3. ASSUME n < Len(blocks'[b]) \/ Closed(b)' PROVE EndAt(f, b, n)'
        <3>1. n < Len(blocks[b]) \/ Closed(b)
            <4>1. Len(blocks'[b]) = Len(blocks[b]) /\ b # c
                BY <1>5, <1>6, <1>13
            <4> QED BY <1>7, <2>3, <4>1 DEF Closed
        <3>2. EndAt(at, b, n)
            BY <1>8, <3>1 DEF LaidTokens
        <3>3. blocks[b][n].child # 0 =>
                 LET d == blocks[b][n].child
                 IN f[d][Len(blocks'[d]) + 1] = at[d][Len(blocks[d]) + 1]
            <4>1. SUFFICES ASSUME NEW d \in 0 .. Len(blocks), d = blocks[b][n].child, d # 0
                           PROVE  f[d][Len(blocks'[d]) + 1] = at[d][Len(blocks[d]) + 1]
                BY <1>13, Zenon
            <4>2. d \in 1 .. Len(blocks)
                BY <1>5, <4>1
            <4> QED BY <1>6, <1>12, <4>2
        <3>4. \A k \in 1 .. Len(config_stack') : blocks[b][n].child # 0 =>
              \/ config_stack'[k] # blocks[b][n].child
              \/ \E l \in 1 .. Len(config_stack) : config_stack'[k] = config_stack[l]
            <4>1. blocks[b][n].child # c
                BY <1>5, <1>13
            <4> QED BY <1>7, <4>1
        <3> QED BY <1>3, <1>4, <1>9, <1>13, <2>1, <3>2, <3>3, <3>4, EndAtStays
    <2> QED BY <2>2, <2>3
<1>18. LaidTokens(f)'
    <2>1. SUFFICES ASSUME NEW b \in 1 .. Len(blocks'), NEW n \in 1 .. Len(blocks'[b])
                   PROVE  /\ StatementAt(f, b, n)'
                          /\ n < Len(blocks'[b]) \/ Closed(b)' => EndAt(f, b, n)'
        BY DEF LaidTokens
    <2>2. b \in 1 .. Len(blocks) /\ n \in 1 .. Len(blocks[b])
        <3>1. b # c
            <4>1. Len(<< >>) = 0
                OBVIOUS
            <4> QED BY <1>6, <2>1, <4>1
        <3>2. b \in 1 .. Len(blocks)
            BY <1>5, <1>6, <3>1
        <3> QED BY <1>6, <3>2
    <2>3. CASE b = T /\ n = L
        BY <1>2, <1>6, <1>14, <1>15, <1>16, <2>3
    <2>4. CASE ~(b = T /\ n = L)
        BY <1>17, <2>2, <2>4
    <2> QED BY <2>3, <2>4
<1>19. Count' = LaidUpTo(f, Top, Len(blocks[Top]))'
    <2>1. Len(blocks'[c]) + 1 = 1
        BY <1>6
    <2> QED BY <1>3, <1>7, <1>9, <1>11, <2>1 DEF LaidUpTo
<1>20. f[1][1] = 0
    <2>1. 1 \in 0 .. Len(blocks)
        BY <1>5
    <2> QED BY <1>8, <1>12, <2>1, Zenon
<1> QED BY <1>11, <1>18, <1>19, <1>20 DEF Laid

\* Nothing is read, nothing is laid.
LEMMA LaidInit ==
    ASSUME Init
    PROVE  RestIsLeft /\ Count = 0 /\ \E at : Laid(at)
<1>1. IInv
    BY InitInvariant
<1>2. pos = 1 /\ blocks = << << >> >> /\ config_stack = <<1>> /\ last_token_type = "START"
    BY DEF Init
<1>3. Len(All) \in Nat
    BY <1>1, AllIs DEF IInv
<1>4. Count = 0
    BY <1>2, <1>3 DEF Count, All
<1>5. RestIsLeft
    <2>1. TokensFrom[pos] = All
        BY <1>2 DEF All
    <2>2. \A i \in 1 .. Len(All) : 0 + i = i
        BY <1>3
    <2> QED BY <1>4, <2>1, <2>2 DEF RestIsLeft
<1>6. PICK at : at = [b \in Nat |-> [n \in Nat |-> 0]]
    OBVIOUS
<1>7. at \in Places /\ at[1][1] = 0
    BY <1>6 DEF Places
<1>8. Len(blocks) = 1 /\ blocks[1] = << >> /\ Len(blocks[1]) = 0 /\ Top = 1
    BY <1>2 DEF Top
<1>9. LaidTokens(at)
    BY <1>8 DEF LaidTokens
<1>10. Count = LaidUpTo(at, Top, Len(blocks[Top]))
    BY <1>2, <1>4, <1>7, <1>8 DEF LaidUpTo
<1> QED BY <1>4, <1>5, <1>7, <1>9, <1>10 DEF Laid

-------------------------------------------------------------------------------
(* Accepted files are in the tree                                              *)

\* Every statement of the tree is complete, and the file ends with the root block.
Complete(at) ==
    /\ at \in Places /\ at[1][1] = 0 /\ at[1][Len(blocks[1]) + 1] = Size
    /\ All[Size + 1].type = "EOF"
    /\ \A b \in 1 .. Len(blocks) : \A n \in 1 .. Len(blocks[b]) :
          StatementAt(at, b, n) /\ EndAt(at, b, n)
    /\ Count = Size

LEMMA AcceptedIsComplete ==
    ASSUME IInv, RestIsLeft, EndOfFile, result' = "true", NEW at, Laid(at)
    PROVE  Complete(at)
<1>1. /\ UNCHANGED text /\ Take("EOF") /\ Len(config_stack) = 1
      /\ last_token_type # "NORMAL"
    BY DEF EndOfFile
<1>2. Count = Size /\ All[Size + 1].type = "EOF"
    BY <1>1, TakeReads DEF IInv
<1>3. Top = 1 /\ config_stack[1] = 1
    BY <1>1, OnStack
<1>4. \A b : Closed(b)
    <2>1. 1 .. 1 = {1}
        OBVIOUS
    <2> QED BY <1>1, <1>3, <2>1 DEF Closed
<1> QED BY <1>1, <1>2, <1>3, <1>4 DEF Complete, Laid, LaidTokens, LaidUpTo

\* The tokens of the n-th statement of block b are those after i, up to m its own, and
\* up to j those of its end.
StatementIs(at, b, n, i, m, j) ==
    LET s == blocks[b][n]
    IN /\ i = at[b][n] /\ j = at[b][n + 1] /\ i < m /\ m < j
       /\ Len(s.tokens) = m - i
       /\ \A k \in 1 .. m - i : All[i + k].type = "NORMAL" /\ All[i + k].value = s.tokens[k]
       /\ \/ s.child = 0 /\ j = m + 1 /\ All[j].type = "STATEMENT_END"
          \/ /\ s.child \in b + 1 .. Len(blocks) /\ m + 1 < j
             /\ All[m + 1].type = "START_BLOCK" /\ All[j].type = "END_BLOCK"
             /\ at[s.child][1] = m + 1
             /\ at[s.child][Len(blocks[s.child]) + 1] = j - 1

LEMMA StatementIsThere ==
    ASSUME IInv, NEW at, Complete(at), Size \in Nat,
           NEW b \in 1 .. Len(blocks), NEW n \in 1 .. Len(blocks[b])
    PROVE  \E i, m, j \in 0 .. Size : StatementIs(at, b, n, i, m, j)
<1>1. at \in Places /\ StatementAt(at, b, n) /\ EndAt(at, b, n) /\ Count = Size
    BY DEF Complete
<1>2. PICK s \in Statement : s = blocks[b][n]
    BY TokensOfStatement
<1>3. PICK l \in Nat : l = Len(s.tokens)
    BY <1>2, TokensOfStatement
<1>4. b \in Nat /\ n \in Nat /\ s.child \in Nat /\ s.child \in 0 .. Len(blocks) /\ Len(blocks) \in Nat
    BY <1>2, TokensOfStatement, TopExists
<1>5. PICK i \in Nat : i = at[b][n]
    BY <1>1, <1>4, AtIsNat
<1>6. PICK j \in Nat : j = at[b][n + 1]
    BY <1>1, <1>4, AtIsNat
<1>7. PICK m \in Nat : m = i + l
    OBVIOUS
<1>8. /\ l >= 1 /\ m <= Size
      /\ \A k \in 1 .. l : All[i + k].type = "NORMAL" /\ All[i + k].value = s.tokens[k]
      /\ s.child # 0 => /\ s.child > b /\ All[m + 1].type = "START_BLOCK"
                        /\ at[s.child][1] = m + 1
    BY <1>1, <1>2, <1>3, <1>5, <1>7, Zenon DEF StatementAt
<1>9. PICK e : e = at[s.child][Len(blocks[s.child]) + 1]
    OBVIOUS
<1>10. /\ j <= Size
       /\ \/ s.child = 0 /\ j = m + 1 /\ All[j].type = "STATEMENT_END"
          \/ s.child # 0 /\ m + 1 < j /\ All[j].type = "END_BLOCK" /\ j = e + 1
    BY <1>1, <1>2, <1>3, <1>5, <1>6, <1>7, <1>9, Zenon DEF EndAt
<1>11. s.child # 0 => e \in Nat
    <2>1. SUFFICES ASSUME s.child # 0 PROVE e \in Nat
        OBVIOUS
    <2>2. s.child \in 1 .. Len(blocks)
        BY <1>4, <2>1
    <2>3. Len(blocks[s.child]) \in Nat
        BY <2>2, BlocksAreStatements
    <2> QED BY <1>1, <1>4, <1>9, <2>3, AtIsNat
<1>12. /\ i \in 0 .. Size /\ m \in 0 .. Size /\ j \in 0 .. Size
       /\ i < m /\ m < j /\ l = m - i
       /\ s.child # 0 => e = j - 1
    <2>1. l >= 1 /\ m <= Size
        BY <1>8, Zenon
    <2>2. j <= Size /\ (j = m + 1 \/ m + 1 < j)
        BY <1>10, Zenon
    <2>3. s.child # 0 => j = e + 1 /\ e \in Nat
        BY <1>10, <1>11, Zenon
    <2>4. s.child # 0 => e = j - 1
        BY <2>3
    <2>5. /\ i \in 0 .. Size /\ m \in 0 .. Size /\ j \in 0 .. Size
          /\ i < m /\ m < j /\ l = m - i
        BY <1>7, <2>1, <2>2
    <2> QED BY <2>4, <2>5
<1>13. s.child # 0 => s.child \in b + 1 .. Len(blocks)
    BY <1>4, <1>8
<1>14. StatementIs(at, b, n, i, m, j)
    BY <1>2, <1>3, <1>5, <1>6, <1>8, <1>9, <1>10, <1>12, <1>13 DEF StatementIs
<1> QED BY <1>12, <1>14

\* In a complete tree the tokens of every block are a config.
LEMMA BlockEnds ==
    ASSUME IInv, NEW at, Complete(at), Size \in Nat
    PROVE  \A b \in 0 .. Len(blocks) : b # 0 => \A n \in 1 .. Len(blocks[b]) + 1 :
              at[b][n] <= Size => at[b][Len(blocks[b]) + 1] \in Ends[at[b][n]]
<1> DEFINE Right(b, n) == at[b][n] <= Size => at[b][Len(blocks[b]) + 1] \in Ends[at[b][n]]
           S == {b \in 0 .. Len(blocks) : b # 0 => \A n \in 1 .. Len(blocks[b]) + 1 : Right(b, n)}
<1>1. Len(blocks) \in Nat /\ at \in Places /\ TypeOK
    BY TopExists DEF Complete, IInv
<1>4. \A x, y, z \in 0 .. Size : x < y /\ y < z => z \in x + 1 .. Size /\ y \in x + 1 .. z - 1
    OBVIOUS
<1>2. ASSUME NEW b \in 0 .. Len(blocks), \A c \in b + 1 .. Len(blocks) : c \in S
      PROVE  b \in S
    <2>1. SUFFICES ASSUME b \in 1 .. Len(blocks)
                   PROVE  \A n \in 1 .. Len(blocks[b]) + 1 : Right(b, n)
        BY <1>1
    <2>2. PICK L \in Nat : L = Len(blocks[b])
        BY <2>1, BlocksAreStatements
    <2>3. PICK M \in Nat : M = L + 1
        OBVIOUS
    <2>4. PICK e : e = at[b][M]
        OBVIOUS
    <2> DEFINE Q == {n \in 0 .. M : n # 0 => (at[b][n] <= Size => e \in Ends[at[b][n]])}
    <2>5. ASSUME NEW n \in 0 .. M, \A k \in n + 1 .. M : k \in Q PROVE n \in Q
        <3>1. SUFFICES ASSUME n # 0, at[b][n] <= Size PROVE e \in Ends[at[b][n]]
            OBVIOUS
        <3>2. at[b][n] \in Nat
            <4>1. b \in Nat /\ n \in Nat
                BY <2>1
            <4> QED BY <1>1, <4>1, AtIsNat
        <3>3. PICK x \in 0 .. Size : x = at[b][n]
            BY <3>1, <3>2
        <3>4. CASE n = M
            BY <1>1, <2>4, <3>3, <3>4, EndsAre
        <3>5. CASE n # M
            <4>1. n \in 1 .. L /\ n + 1 \in n + 1 .. M /\ n + 1 # 0
                BY <2>3, <3>1, <3>5
            <4>2. PICK i, m, j \in 0 .. Size : StatementIs(at, b, n, i, m, j)
                BY <2>1, <2>2, <4>1, StatementIsThere
            <4>3. j \in i + 1 .. Size /\ m \in i + 1 .. j - 1 /\ i = x /\ j = at[b][n + 1]
                <5>1. i = at[b][n] /\ j = at[b][n + 1] /\ i < m /\ m < j
                    BY <4>2, Zenon DEF StatementIs
                <5>2. j \in i + 1 .. Size /\ m \in i + 1 .. j - 1
                    BY <1>4, <4>2, <5>1
                <5> QED BY <3>3, <5>1, <5>2
            <4>4. e \in Ends[j]
                <5>1. n + 1 \in Q
                    BY <2>5, <4>1
                <5>2. at[b][n + 1] <= Size
                    BY <4>2, <4>3
                <5> QED BY <4>1, <4>3, <5>1, <5>2
            <4>5. \A k \in i + 1 .. m : All[k].type = "NORMAL"
                <5>1. SUFFICES ASSUME NEW k \in i + 1 .. m PROVE All[k].type = "NORMAL"
                    OBVIOUS
                <5>2. k - i \in 1 .. m - i /\ i + (k - i) = k
                    BY <4>2
                <5>3. \A h \in 1 .. m - i : All[i + h].type = "NORMAL"
                    BY <4>2 DEF StatementIs
                <5> QED BY <5>2, <5>3
            <4>6. EndsStatement(m, j)
                <5>1. CASE blocks[b][n].child = 0
                    BY <2>1, <4>2, <5>1 DEF StatementIs, EndsStatement
                <5>2. CASE blocks[b][n].child # 0
                    <6>1. PICK c : c = blocks[b][n].child
                        OBVIOUS
                    <6>2. /\ c \in b + 1 .. Len(blocks) /\ m + 1 < j
                          /\ All[m + 1].type = "START_BLOCK" /\ All[j].type = "END_BLOCK"
                          /\ at[c][1] = m + 1 /\ at[c][Len(blocks[c]) + 1] = j - 1
                        BY <4>2, <5>2, <6>1 DEF StatementIs
                    <6>3. c # 0 /\ c \in S /\ Len(blocks[c]) \in Nat
                        <7>1. c \in 1 .. Len(blocks)
                            BY <1>1, <6>2
                        <7> QED BY <1>2, <6>2, <7>1, BlocksAreStatements
                    <6>4. Right(c, 1)
                        <7>1. 1 \in 1 .. Len(blocks[c]) + 1
                            BY <6>3
                        <7> QED BY <6>3, <7>1
                    <6>5. m + 1 <= Size
                        BY <4>3
                    <6> QED BY <6>2, <6>4, <6>5 DEF EndsStatement
                <5> QED BY <5>1, <5>2
            <4> QED BY <1>1, <3>3, <4>3, <4>4, <4>5, <4>6, EndsAre
        <3> QED BY <3>4, <3>5
    <2> HIDE DEF Q
    <2>6. 0 .. M \subseteq Q
        BY <2>5, Downward
    <2> QED BY <2>2, <2>3, <2>4, <2>6 DEF Q
<1> HIDE DEF S
<1>3. 0 .. Len(blocks) \subseteq S
    BY <1>1, <1>2, Downward
<1> QED BY <1>3 DEF S

LEMMA CompleteIsGrammatical ==
    ASSUME IInv, NEW at, Complete(at)
    PROVE  Grammatical
<1>1. /\ Size \in Nat /\ Len(Types(Tokens)) = Size /\ Len(blocks) \in Nat
      /\ 1 \in 1 .. Len(blocks) /\ Len(blocks[1]) \in Nat
    <2>1. 1 \in 1 .. Len(config_stack) /\ config_stack[1] = 1
        BY TopExists, OnStack
    <2>2. 1 \in 1 .. Len(blocks)
        BY <2>1, OnStack
    <2> QED BY <2>2, TypesAre, TopExists, BlocksAreStatements DEF IInv
<1>2. /\ at[1][1] = 0 /\ at[1][Len(blocks[1]) + 1] = Size /\ All[Size + 1].type = "EOF"
    BY DEF Complete
<1>3. Size \in Ends[0]
    <2>1. 1 \in 0 .. Len(blocks) /\ 1 \in 1 .. Len(blocks[1]) + 1 /\ 0 <= Size
        BY <1>1
    <2> QED BY <1>1, <1>2, <2>1, BlockEnds
<1>4. LexesToTheEnd
    <2>1. Size + 1 = Len(All)
        <3>1. Len(All) \in Nat
            BY AllIs DEF IInv
        <3> QED BY <3>1 DEF Size
    <2> QED BY <1>2, <2>1 DEF LexesToTheEnd, Last, All
<1> QED BY <1>1, <1>3, <1>4 DEF Grammatical, IsConfig, Ends

\* Going up.
LEMMA Upward ==
    ASSUME NEW n \in Nat, NEW S,
           \A i \in 0 .. n : (\A j \in 0 .. i - 1 : j \in S) => i \in S
    PROVE  0 .. n \subseteq S
<1> DEFINE T == (0 .. n) \ S
<1>1. T \in SUBSET Nat
    OBVIOUS
<1>2. SUFFICES ASSUME T # {} PROVE FALSE
    OBVIOUS
<1>3. PICK m \in T : \A y \in T : m <= y
    <2> HIDE DEF T
    <2> QED BY <1>1, <1>2, MinIsIn
<1>4. m \in 0 .. n /\ m \notin S
    OBVIOUS
<1>5. ASSUME NEW j \in 0 .. m - 1 PROVE j \in S
    <2>1. j \in 0 .. n /\ ~(m <= j)
        BY <1>4
    <2> QED BY <1>3, <2>1
<1> QED BY <1>4, <1>5

\* The tokens i + 1 .. j of V.
Part(V, i, j) == [k \in 1 .. j - i |-> V[i + k]]

LEMMA PartIs ==
    ASSUME NEW S, NEW V \in Seq(S), NEW i \in Nat, NEW j \in Nat, i <= j, j <= Len(V)
    PROVE  /\ Part(V, i, j) \in Seq(S) /\ Len(Part(V, i, j)) = j - i
           /\ \A k \in 1 .. j - i : Part(V, i, j)[k] = V[i + k]
<1>1. PICK l \in Nat : l = j - i
    OBVIOUS
<1>2. \A k \in 1 .. l : i + k \in 1 .. Len(V)
    BY <1>1
<1>5. \A h \in 1 .. Len(V) : V[h] \in S
    OBVIOUS
<1>3. \A k \in 1 .. l : V[i + k] \in S
    BY <1>2, <1>5, Zenon
<1>4. [k \in 1 .. l |-> V[i + k]] \in Seq(S) /\ Len([k \in 1 .. l |-> V[i + k]]) = l
    BY <1>3
<1> QED BY <1>1, <1>4 DEF Part

LEMMA PartOfNothing ==
    ASSUME NEW V, NEW i \in Nat
    PROVE  Part(V, i, i) = << >>
<1>1. 1 .. i - i = {}
    OBVIOUS
<1> QED BY <1>1 DEF Part

LEMMA PartIsAll ==
    ASSUME NEW S, NEW V \in Seq(S)
    PROVE  Part(V, 0, Len(V)) = V
<1>1. Len(V) \in Nat /\ Len(V) - 0 = Len(V) /\ \A k \in 1 .. Len(V) : 0 + k = k
    OBVIOUS
<1>2. Part(V, 0, Len(V)) = [k \in 1 .. Len(V) |-> V[k]]
    BY <1>1 DEF Part
<1> QED BY <1>2

\* What has the length and the elements of a part is that part.
LEMMA IsPart ==
    ASSUME NEW S, NEW V \in Seq(S), NEW i \in Nat, NEW j \in Nat, i <= j, j <= Len(V),
           NEW R, NEW s \in Seq(R), Len(s) = j - i, \A k \in 1 .. j - i : s[k] = V[i + k]
    PROVE  s = Part(V, i, j)
<1>1. s = [k \in 1 .. Len(s) |-> s[k]]
    OBVIOUS
<1> QED BY <1>1 DEF Part

LEMMA PartsJoin ==
    ASSUME NEW S, NEW V \in Seq(S), NEW i \in Nat, NEW j \in Nat, NEW m \in Nat,
           i <= j, j <= m, m <= Len(V)
    PROVE  Part(V, i, j) \o Part(V, j, m) = Part(V, i, m)
<1>1. Len(V) \in Nat /\ j <= Len(V)
    OBVIOUS
<1>2. PICK s \in Seq(S) : /\ s = Part(V, i, j) /\ Len(s) = j - i
                          /\ \A k \in 1 .. j - i : s[k] = V[i + k]
    <2>1. /\ Part(V, i, j) \in Seq(S) /\ Len(Part(V, i, j)) = j - i
          /\ \A k \in 1 .. j - i : Part(V, i, j)[k] = V[i + k]
        BY <1>1, PartIs, Zenon
    <2> QED BY <2>1, Zenon
<1>3. PICK t \in Seq(S) : /\ t = Part(V, j, m) /\ Len(t) = m - j
                          /\ \A k \in 1 .. m - j : t[k] = V[j + k]
    <2>1. /\ Part(V, j, m) \in Seq(S) /\ Len(Part(V, j, m)) = m - j
          /\ \A k \in 1 .. m - j : Part(V, j, m)[k] = V[j + k]
        BY PartIs, Zenon
    <2> QED BY <2>1, Zenon
<1>4. /\ s \o t \in Seq(S) /\ Len(s \o t) = Len(s) + Len(t)
      /\ \A k \in 1 .. Len(s) + Len(t) :
            (s \o t)[k] = IF k <= Len(s) THEN s[k] ELSE t[k - Len(s)]
    BY ConcatProperties
<1>5. Len(s) + Len(t) = m - i
    BY <1>2, <1>3
<1>6. ASSUME NEW k \in 1 .. m - i PROVE (s \o t)[k] = V[i + k]
    <2>1. CASE k <= j - i
        <3>1. k \in 1 .. j - i
            BY <2>1
        <3> QED BY <1>2, <1>4, <1>5, <2>1, <3>1
    <2>2. CASE ~(k <= j - i)
        <3>1. k - (j - i) \in 1 .. m - j /\ j + (k - (j - i)) = i + k
            BY <2>2
        <3>2. (s \o t)[k] = t[k - (j - i)]
            BY <1>2, <1>4, <1>5, <2>2
        <3> QED BY <1>3, <3>1, <3>2
    <2> QED BY <2>1, <2>2
<1>7. i <= m
    OBVIOUS
<1>8. s \o t = Part(V, i, m)
    BY <1>4, <1>5, <1>6, <1>7, IsPart
<1> QED BY <1>2, <1>3, <1>8

\* FlattenSeq of parts that follow each other is the part they make up.
LEMMA FlattenParts ==
    ASSUME NEW S, NEW V \in Seq(S), NEW N \in Nat, NEW ms, Len(ms) = N, N = 0 => ms = << >>,
           NEW a, a[1] \in Nat,
           \A n \in 1 .. N :
              /\ a[n] \in Nat /\ a[n + 1] \in Nat /\ a[n] <= a[n + 1] /\ a[n + 1] <= Len(V)
              /\ ms[n] = Part(V, a[n], a[n + 1])
    PROVE  /\ FlattenSeq(ms) = Part(V, a[1], a[N + 1])
           /\ a[N + 1] \in Nat /\ a[1] <= a[N + 1] /\ (N # 0 => a[N + 1] <= Len(V))
<1> DEFINE U == {n \in 0 .. N : a[n + 1] \in Nat /\ a[1] <= a[n + 1]
                                /\ (n # 0 => a[n + 1] <= Len(V))}
<1>1. ASSUME NEW n \in 0 .. N, \A k \in 0 .. n - 1 : k \in U PROVE n \in U
    <2>1. CASE n = 0
        <3>1. 0 + 1 = 1
            OBVIOUS
        <3> QED BY <2>1, <3>1
    <2>2. CASE n # 0
        <3>1. PICK k \in 0 .. N : k = n - 1 /\ k \in 0 .. n - 1 /\ k + 1 = n /\ n \in 1 .. N
            <4>1. n - 1 \in 0 .. N /\ n - 1 \in 0 .. n - 1 /\ (n - 1) + 1 = n /\ n \in 1 .. N
                BY <2>2
            <4> QED BY <4>1
        <3>2. k \in U
            BY <1>1, <3>1
        <3>3. a[n] \in Nat /\ a[1] <= a[n]
            BY <3>1, <3>2
        <3>4. a[n + 1] \in Nat /\ a[n] <= a[n + 1] /\ a[n + 1] <= Len(V)
            BY <3>1
        <3>5. \A x, y, z \in Nat : x <= y /\ y <= z => x <= z
            OBVIOUS
        <3>6. a[1] <= a[n + 1]
            BY <3>3, <3>4, <3>5
        <3> QED BY <3>4, <3>6
    <2> QED BY <2>1, <2>2
<1>2. 0 .. N \subseteq U
    <2> HIDE DEF U
    <2> QED BY <1>1, Upward
<1>3. \A n \in 1 .. N : a[n + 1] \in Nat /\ a[1] <= a[n + 1] /\ a[n + 1] <= Len(V)
    BY <1>2
<1>4. a[N + 1] \in Nat /\ a[1] <= a[N + 1] /\ (N # 0 => a[N + 1] <= Len(V))
    BY <1>2
<1> HIDE DEF U
<1> DEFINE Joins(x, y, z) == Part(V, x, y) \o Part(V, y, z) = Part(V, x, z)
<1>7. \A x, y, z \in Nat : x <= y /\ y <= z /\ z <= Len(V) => Joins(x, y, z)
    BY PartsJoin
<1> HIDE DEF Joins
<1>5. CASE N = 0
    <2>1. FlattenSeq(ms) = << >>
        BY <1>5, Zenon DEF FlattenSeq
    <2>2. a[N + 1] = a[1]
        BY <1>5
    <2>3. Part(V, a[1], a[1]) = << >>
        BY PartOfNothing
    <2> QED BY <1>4, <2>1, <2>2, <2>3
<1>6. CASE N # 0
    <2> DEFINE Right(f) == f = [n \in 1 .. N |-> IF n = 1 THEN ms[n] ELSE f[n - 1] \o ms[n]]
               F == [n \in 1 .. N |-> Part(V, a[1], a[n + 1])]
               f == CHOOSE f : Right(f)
    <2>1. ASSUME NEW n \in 1 .. N, n # 1
          PROVE  /\ n - 1 \in 1 .. N /\ (n - 1) + 1 = n
                 /\ Part(V, a[1], a[(n - 1) + 1]) \o ms[n] = Part(V, a[1], a[n + 1])
        <3>1. PICK k \in 1 .. N : k = n - 1 /\ k + 1 = n
            <4>1. n - 1 \in 1 .. N /\ (n - 1) + 1 = n
                BY <2>1
            <4> QED BY <4>1
        <3>2. a[n] \in Nat /\ a[1] <= a[n]
            BY <1>3, <3>1
        <3>3. a[n + 1] \in Nat /\ a[n] <= a[n + 1] /\ a[n + 1] <= Len(V) /\ ms[n] = Part(V, a[n], a[n + 1])
            OBVIOUS
        <3>4. Part(V, a[1], a[n]) \o Part(V, a[n], a[n + 1]) = Part(V, a[1], a[n + 1])
            <4>1. PICK x \in Nat : x = a[1]
                OBVIOUS
            <4>2. PICK y \in Nat : y = a[n]
                BY <3>2
            <4>3. PICK z \in Nat : z = a[n + 1]
                BY <3>3
            <4>4. x <= y /\ y <= z /\ z <= Len(V)
                BY <3>2, <3>3, <4>1, <4>2, <4>3
            <4>5. Joins(x, y, z)
                BY <1>7, <4>4
            <4> QED BY <4>1, <4>2, <4>3, <4>5, Zenon DEF Joins
        <3> QED BY <3>1, <3>3, <3>4
    <2>2. ms[1] = Part(V, a[1], a[1 + 1]) /\ 1 \in 1 .. N
        BY <1>6
    <2>3. Right(F)
        <3>1. ASSUME NEW n \in 1 .. N
              PROVE  F[n] = IF n = 1 THEN ms[n] ELSE F[n - 1] \o ms[n]
            <4>1. CASE n = 1
                BY <2>2, <4>1
            <4>2. CASE n # 1
                <5>1. F[n - 1] = Part(V, a[1], a[(n - 1) + 1]) /\ F[n] = Part(V, a[1], a[n + 1])
                    BY <2>1, <4>2
                <5> QED BY <2>1, <4>2, <5>1
            <4> QED BY <4>1, <4>2
        <3>2. F = [n \in 1 .. N |-> F[n]]
            OBVIOUS
        <3> HIDE DEF F
        <3> QED BY <3>1, <3>2
    <2>4. Right(f)
        <3>1. \E g : Right(g)
            <4> HIDE DEF Right, F
            <4> QED BY <2>3, Zenon
        <3> HIDE DEF Right
        <3> QED BY <3>1, Zenon
    <2>5. FlattenSeq(ms) = f[N]
        BY <1>6, Zenon DEF FlattenSeq
    <2> HIDE DEF f, F
    <2>6. \A n \in 1 .. N : f[n] = IF n = 1 THEN ms[n] ELSE f[n - 1] \o ms[n]
        BY <2>4
    <2> HIDE DEF Right
    <2> DEFINE W == {n \in 0 .. N : n # 0 => f[n] = Part(V, a[1], a[n + 1])}
    <2>7. ASSUME NEW n \in 0 .. N, \A k \in 0 .. n - 1 : k \in W PROVE n \in W
        <3>1. SUFFICES ASSUME n # 0 PROVE f[n] = Part(V, a[1], a[n + 1])
            OBVIOUS
        <3>2. n \in 1 .. N
            BY <3>1
        <3>3. CASE n = 1
            BY <2>2, <2>6, <3>2, <3>3
        <3>4. CASE n # 1
            <4>1. PICK k \in 0 .. N : k = n - 1 /\ k \in 0 .. n - 1 /\ k # 0
                <5>1. n - 1 \in 0 .. N /\ n - 1 \in 0 .. n - 1 /\ n - 1 # 0
                    BY <3>2, <3>4
                <5> QED BY <5>1
            <4>2. f[n - 1] = Part(V, a[1], a[(n - 1) + 1])
                BY <2>7, <4>1
            <4> HIDE DEF W
            <4> QED BY <2>1, <2>6, <3>2, <3>4, <4>2
        <3> QED BY <3>3, <3>4
    <2> HIDE DEF W
    <2>8. 0 .. N \subseteq W
        BY <2>7, Upward
    <2>9. f[N] = Part(V, a[1], a[N + 1])
        BY <1>6, <2>8 DEF W
    <2> QED BY <1>4, <2>5, <2>9
<1> QED BY <1>5, <1>6

\* The tokens of the file as NothingIsLost compares them.
WrittenToken == [type : TokenKinds, value : Nat \X Nat]
FileTokens == Values(Tokens)

LEMMA ValuesAre ==
    ASSUME TypeOK
    PROVE  /\ Size \in Nat /\ FileTokens \in Seq(WrittenToken) /\ Len(FileTokens) = Size
           /\ \A k \in 1 .. Size : FileTokens[k] = Written(All[k].type, All[k].value)
<1>1. /\ Size \in Nat /\ DOMAIN Tokens = 1 .. Size
      /\ \A i \in 1 .. Size : /\ Tokens[i] = All[i] /\ All[i].type \in TokenKinds
                              /\ All[i].value \in Nat \X Nat
    BY TypesAre
<1>5. \A k \in 1 .. Size : Written(All[k].type, All[k].value) \in WrittenToken
    BY <1>1 DEF Written, WrittenToken, TokenKinds
<1>6. FileTokens = [k \in 1 .. Size |-> Written(All[k].type, All[k].value)]
    BY <1>1 DEF FileTokens, Values
<1> HIDE DEF FileTokens
<1> QED BY <1>1, <1>5, <1>6

\* A mark is the part of its token.
LEMMA MarkIsPart ==
    ASSUME TypeOK, NEW i \in 0 .. Size, NEW j \in 0 .. Size, j = i + 1,
           All[j].type \in TokenKinds \ {"NORMAL"}
    PROVE  Mark(All[j].type) = Part(FileTokens, i, j)
<1>1. /\ Size \in Nat /\ FileTokens \in Seq(WrittenToken) /\ Len(FileTokens) = Size
      /\ j \in 1 .. Size /\ j - i = 1
      /\ FileTokens[j] = Written(All[j].type, All[j].value)
    BY ValuesAre
<1>2. FileTokens[j] = Written(All[j].type, <<0, 0>>)
    BY <1>1 DEF Written
<1> HIDE DEF FileTokens
<1>3. FileTokens[j] \in WrittenToken
    BY <1>1
<1>4. Mark(All[j].type) \in Seq(WrittenToken) /\ Len(Mark(All[j].type)) = 1
      /\ Mark(All[j].type)[1] = FileTokens[j]
    BY <1>2, <1>3 DEF Mark
<1>5. \A k \in 1 .. 1 : k = 1 /\ i + k = j
    OBVIOUS
<1>6. \A k \in 1 .. j - i : Mark(All[j].type)[k] = FileTokens[i + k]
    BY <1>1, <1>4, <1>5
<1>7. i \in Nat /\ j \in Nat /\ i <= j /\ j <= Len(FileTokens)
    BY <1>1
<1>8. FileTokens \in Seq(WrittenToken) /\ Len(Mark(All[j].type)) = j - i
    BY <1>1, <1>4
<1>9. PICK s \in Seq(WrittenToken) : s = Mark(All[j].type)
    BY <1>4
<1>10. Len(s) = j - i /\ \A k \in 1 .. j - i : s[k] = FileTokens[i + k]
    BY <1>6, <1>8, <1>9, Zenon
<1>11. s = Part(FileTokens, i, j)
    BY <1>7, <1>8, <1>10, IsPart
<1> QED BY <1>9, <1>11
\* The part of the file that block b is.
PartOf(at, b) == Part(FileTokens, at[b][1], at[b][Len(blocks[b]) + 1])

\* ToString of a statement is its part of the file, when it is so for its block.
LEMMA StatementIsPart ==
    ASSUME IInv, NEW at, Complete(at), Size \in Nat,
           NEW b \in 1 .. Len(blocks), NEW n \in 1 .. Len(blocks[b]), NEW f,
           \A c \in b + 1 .. Len(blocks) : f[c] = PartOf(at, c)
    PROVE  /\ StatementTokens(blocks[b][n], f) = Part(FileTokens, at[b][n], at[b][n + 1])
           /\ at[b][n] \in Nat /\ at[b][n + 1] \in Nat
           /\ at[b][n] <= at[b][n + 1] /\ at[b][n + 1] <= Size
<1>1. PICK i, m, j \in 0 .. Size : StatementIs(at, b, n, i, m, j)
    BY StatementIsThere
<1>2. PICK s \in Statement : s = blocks[b][n]
    BY TokensOfStatement
<1>3. /\ i = at[b][n] /\ j = at[b][n + 1] /\ i < m /\ m < j /\ Len(s.tokens) = m - i
      /\ \A k \in 1 .. m - i : All[i + k].type = "NORMAL" /\ All[i + k].value = s.tokens[k]
    BY <1>1, <1>2, Zenon DEF StatementIs
<1>4. \/ s.child = 0 /\ j = m + 1 /\ All[j].type = "STATEMENT_END"
      \/ /\ s.child \in b + 1 .. Len(blocks) /\ m + 1 < j
         /\ All[m + 1].type = "START_BLOCK" /\ All[j].type = "END_BLOCK"
         /\ at[s.child][1] = m + 1
         /\ at[s.child][Len(blocks[s.child]) + 1] = j - 1
    BY <1>1, <1>2, Zenon DEF StatementIs
<1>5. /\ TypeOK /\ FileTokens \in Seq(WrittenToken) /\ Len(FileTokens) = Size
      /\ \A k \in 1 .. Size : FileTokens[k] = Written(All[k].type, All[k].value)
    BY ValuesAre DEF IInv
<1> HIDE DEF FileTokens
<1> DEFINE own == [k \in DOMAIN s.tokens |-> Written("NORMAL", s.tokens[k])]
<1>6. own = Part(FileTokens, i, m)
    <2>1. PICK l \in Nat : l = m - i
        BY <1>3
    <2>2. DOMAIN s.tokens = 1 .. l /\ \A k \in 1 .. l : s.tokens[k] \in Nat \X Nat
        <3>1. s.tokens \in Seq(Nat \X Nat)
            BY <1>2 DEF Statement
        <3>2. Len(s.tokens) = l
            BY <1>3, <2>1
        <3> QED BY <3>1, <3>2, LenProperties, ElementOfSeq
    <2>3. own = [k \in 1 .. l |-> Written("NORMAL", s.tokens[k])]
        BY <2>2
    <2>4. \A k \in 1 .. l : Written("NORMAL", s.tokens[k]) \in WrittenToken
        BY <2>2 DEF Written, WrittenToken, TokenKinds
    <2> HIDE DEF own
    <2>5. own \in Seq(WrittenToken) /\ Len(own) = l
        BY <2>3, <2>4
    <2>6. ASSUME NEW k \in 1 .. l PROVE own[k] = FileTokens[i + k]
        <3>1. i + k \in 1 .. Size
            <4>1. l = m - i /\ i < m
                BY <1>3, <2>1
            <4> QED BY <4>1
        <3>2. FileTokens[i + k] = Written(All[i + k].type, All[i + k].value)
            BY <1>5, <3>1
        <3>3. All[i + k].type = "NORMAL" /\ All[i + k].value = s.tokens[k]
            BY <1>3, <2>1
        <3> QED BY <2>3, <3>2, <3>3
    <2>7. i \in Nat /\ m \in Nat /\ i <= m /\ m <= Len(FileTokens)
        BY <1>3, <1>5
    <2> QED BY <1>5, <2>1, <2>5, <2>6, <2>7, IsPart
<1> HIDE DEF own
<1>7. /\ i \in Nat /\ m \in Nat /\ j \in Nat /\ i <= m /\ m <= j
      /\ m <= Len(FileTokens) /\ j <= Len(FileTokens) /\ i <= j /\ j <= Size
    <2>1. i < m /\ m < j
        BY <1>3, Zenon
    <2>2. Len(FileTokens) = Size
        BY <1>5, Zenon
    <2> QED BY <2>1, <2>2
<1>8. CASE s.child = 0
    <2>1. j = m + 1 /\ All[j].type = "STATEMENT_END"
        BY <1>4, <1>7, <1>8
    <2>2. Mark("STATEMENT_END") = Part(FileTokens, m, j)
        BY <1>5, <2>1, MarkIsPart DEF TokenKinds
    <2>3. StatementTokens(s, f) = own \o Mark("STATEMENT_END")
        BY <1>8, Zenon DEF StatementTokens, own
    <2>4. Part(FileTokens, i, m) \o Part(FileTokens, m, j) = Part(FileTokens, i, j)
        <3>1. /\ FileTokens \in Seq(WrittenToken) /\ i \in Nat /\ m \in Nat /\ j \in Nat
              /\ i <= m /\ m <= j /\ j <= Len(FileTokens)
            BY <1>5, <1>7, Zenon
        <3> QED BY <3>1, PartsJoin
    <2>5. StatementTokens(s, f) = Part(FileTokens, i, m) \o Part(FileTokens, m, j)
        BY <1>6, <2>2, <2>3, Zenon
    <2>6. StatementTokens(s, f) = Part(FileTokens, i, j)
        BY <2>4, <2>5, Zenon
    <2> QED BY <1>2, <1>3, <1>7, <2>6
<1>9. CASE s.child # 0
    <2>1. PICK c : c = s.child
        OBVIOUS
    <2>2. /\ c \in b + 1 .. Len(blocks) /\ m + 1 < j /\ c # 0
          /\ All[m + 1].type = "START_BLOCK" /\ All[j].type = "END_BLOCK"
          /\ at[c][1] = m + 1 /\ at[c][Len(blocks[c]) + 1] = j - 1
        BY <1>4, <1>9, <2>1, Zenon
    <2>3. PICK p \in 0 .. Size : p = m + 1
        <3>1. m + 1 < j
            BY <2>2, Zenon
        <3>2. m + 1 \in 0 .. Size
            BY <3>1
        <3> QED BY <3>2, Zenon
    <2>4. PICK q \in 0 .. Size : q = j - 1 /\ j = q + 1
        <3>1. m + 1 < j
            BY <2>2, Zenon
        <3>2. j - 1 \in 0 .. Size /\ j = (j - 1) + 1
            BY <3>1
        <3> QED BY <3>2
    <2>5. /\ p \in Nat /\ q \in Nat /\ m <= p /\ p <= q /\ q <= j /\ p <= Len(FileTokens) /\ q <= Len(FileTokens)
          /\ i <= p /\ i <= q
        BY <1>7, <2>2, <2>3, <2>4
    <2>6. Mark("START_BLOCK") = Part(FileTokens, m, p)
        BY <1>5, <2>2, <2>3, MarkIsPart DEF TokenKinds
    <2>7. Mark("END_BLOCK") = Part(FileTokens, q, j)
        BY <1>5, <2>2, <2>4, MarkIsPart DEF TokenKinds
    <2>8. f[c] = Part(FileTokens, p, q)
        BY <2>2, <2>3, <2>4 DEF PartOf
    <2>9. StatementTokens(s, f) = own \o (Mark("START_BLOCK") \o f[c] \o Mark("END_BLOCK"))
        BY <2>1, <2>2, Zenon DEF StatementTokens, own
    <2>10. /\ Part(FileTokens, m, p) \o Part(FileTokens, p, q) = Part(FileTokens, m, q)
           /\ Part(FileTokens, m, q) \o Part(FileTokens, q, j) = Part(FileTokens, m, j)
           /\ Part(FileTokens, i, m) \o Part(FileTokens, m, j) = Part(FileTokens, i, j)
        <3>1. m <= q
            BY <1>7, <2>5
        <3>2. Part(FileTokens, m, p) \o Part(FileTokens, p, q) = Part(FileTokens, m, q)
            BY <1>5, <1>7, <2>5, PartsJoin
        <3>3. Part(FileTokens, m, q) \o Part(FileTokens, q, j) = Part(FileTokens, m, j)
            <4>1. FileTokens \in Seq(WrittenToken) /\ m \in Nat /\ j \in Nat /\ j <= Len(FileTokens)
                BY <1>5, <1>7, Zenon
            <4>2. q \in Nat /\ q <= j
                BY <2>5, Zenon
            <4> QED BY <3>1, <4>1, <4>2, PartsJoin
        <3>4. Part(FileTokens, i, m) \o Part(FileTokens, m, j) = Part(FileTokens, i, j)
            BY <1>5, <1>7, PartsJoin
        <3> QED BY <3>2, <3>3, <3>4
    <2> QED BY <1>2, <1>3, <1>6, <1>7, <2>6, <2>7, <2>8, <2>9, <2>10, Zenon
<1> QED BY <1>8, <1>9

\* So is that of a block.
LEMMA BlockIsPart ==
    ASSUME IInv, NEW at, Complete(at), Size \in Nat, NEW b \in 1 .. Len(blocks), NEW f,
           \A c \in b + 1 .. Len(blocks) : f[c] = PartOf(at, c)
    PROVE  FlattenSeq([n \in DOMAIN blocks[b] |-> StatementTokens(blocks[b][n], f)])
              = PartOf(at, b)
<1>1. PICK L \in Nat : L = Len(blocks[b]) /\ DOMAIN blocks[b] = 1 .. L
    BY BlocksAreStatements
<1>2. PICK ms : ms = [n \in 1 .. L |-> StatementTokens(blocks[b][n], f)]
    OBVIOUS
<1>3. PICK a : a = at[b]
    OBVIOUS
<1>4. a[1] \in Nat
    <2>1. b \in Nat /\ 1 \in Nat /\ at \in Places
        BY TopExists DEF Complete
    <2> QED BY <1>3, <2>1, AtIsNat
<1>5. FileTokens \in Seq(WrittenToken) /\ Len(FileTokens) = Size
    BY ValuesAre DEF IInv
<1> HIDE DEF FileTokens
<1>6. \A n \in 1 .. L : /\ a[n] \in Nat /\ a[n + 1] \in Nat /\ a[n] <= a[n + 1]
                        /\ a[n + 1] <= Len(FileTokens) /\ ms[n] = Part(FileTokens, a[n], a[n + 1])
    <2>1. SUFFICES ASSUME NEW n \in 1 .. L
                   PROVE  /\ a[n] \in Nat /\ a[n + 1] \in Nat /\ a[n] <= a[n + 1]
                          /\ a[n + 1] <= Len(FileTokens) /\ ms[n] = Part(FileTokens, a[n], a[n + 1])
        OBVIOUS
    <2>2. /\ StatementTokens(blocks[b][n], f) = Part(FileTokens, at[b][n], at[b][n + 1])
          /\ at[b][n] \in Nat /\ at[b][n + 1] \in Nat
          /\ at[b][n] <= at[b][n + 1] /\ at[b][n + 1] <= Size
        BY <1>1, StatementIsPart
    <2>3. ms[n] = StatementTokens(blocks[b][n], f)
        BY <1>2
    <2> QED BY <1>3, <1>5, <2>2, <2>3
<1>7. Len(ms) = L /\ (L = 0 => ms = << >>)
    BY <1>2
<1>8. FlattenSeq(ms) = Part(FileTokens, a[1], a[L + 1])
    <2>1. FileTokens \in Seq(WrittenToken)
        BY <1>5
    <2> QED BY <1>4, <1>6, <1>7, <2>1, FlattenParts
<1> QED BY <1>1, <1>2, <1>3, <1>8 DEF PartOf

LEMMA CompleteIsTheTree ==
    ASSUME IInv, NEW at, Complete(at)
    PROVE  BlockTokens[1] = Values(Tokens)
<1> DEFINE Block(f, b) ==
               FlattenSeq([n \in DOMAIN blocks[b] |-> StatementTokens(blocks[b][n], f)])
           F == [b \in DOMAIN blocks |-> PartOf(at, b)]
           S == {b \in 0 .. Len(blocks) : b # 0 => BlockTokens[b] = PartOf(at, b)}
<1>1. /\ Size \in Nat /\ Len(blocks) \in Nat /\ DOMAIN blocks = 1 .. Len(blocks)
      /\ 1 \in 1 .. Len(blocks) /\ FileTokens \in Seq(WrittenToken) /\ Len(FileTokens) = Size
    <2>1. 1 \in 1 .. Len(config_stack) /\ config_stack[1] = 1
        BY TopExists, OnStack
    <2>2. 1 \in 1 .. Len(blocks)
        BY <2>1, OnStack
    <2>3. Len(blocks) \in Nat /\ DOMAIN blocks = 1 .. Len(blocks)
        BY TopExists, BlocksAreStatements
    <2> QED BY <2>2, <2>3, ValuesAre DEF IInv
<1>2. F = [b \in DOMAIN blocks |-> Block(F, b)]
    <2>1. ASSUME NEW b \in DOMAIN blocks PROVE PartOf(at, b) = Block(F, b)
        <3>1. \A c \in b + 1 .. Len(blocks) : c \in DOMAIN blocks
            BY <1>1
        <3>2. \A c \in b + 1 .. Len(blocks) : F[c] = PartOf(at, c)
            BY <3>1
        <3> HIDE DEF F
        <3> QED BY <1>1, <3>2, BlockIsPart
    <2> HIDE DEF Block
    <2> QED BY <2>1
<1>3. \E f : f = [b \in DOMAIN blocks |-> Block(f, b)]
    <2> HIDE DEF F, Block
    <2> QED BY <1>2, Zenon
<1>4. BlockTokens = [b \in DOMAIN blocks |-> Block(BlockTokens, b)]
    BY <1>3, Zenon DEF BlockTokens
<1>5. ASSUME NEW b \in 0 .. Len(blocks), \A c \in b + 1 .. Len(blocks) : c \in S
      PROVE  b \in S
    <2>1. SUFFICES ASSUME b # 0 PROVE BlockTokens[b] = PartOf(at, b)
        OBVIOUS
    <2>2. b \in 1 .. Len(blocks) /\ \A c \in b + 1 .. Len(blocks) : c # 0
        BY <1>1, <2>1
    <2>3. \A c \in b + 1 .. Len(blocks) : BlockTokens[c] = PartOf(at, c)
        BY <1>5, <2>2
    <2>4. Block(BlockTokens, b) = PartOf(at, b)
        BY <1>1, <2>2, <2>3, BlockIsPart
    <2> HIDE DEF Block
    <2>5. BlockTokens[b] = Block(BlockTokens, b)
        BY <1>1, <1>4, <2>2
    <2> QED BY <2>4, <2>5
<1> HIDE DEF S
<1>6. 0 .. Len(blocks) \subseteq S
    BY <1>1, <1>5, Downward
<1>7. BlockTokens[1] = PartOf(at, 1)
    <2>1. 1 \in 0 .. Len(blocks)
        BY <1>1
    <2> QED BY <1>6, <2>1 DEF S
<1>8. PartOf(at, 1) = Part(FileTokens, 0, Size)
    BY DEF PartOf, Complete
<1> HIDE DEF FileTokens
<1>9. Part(FileTokens, 0, Size) = FileTokens
    BY <1>1, PartIsAll
<1> QED BY <1>7, <1>8, <1>9 DEF FileTokens

LEMMA StartStaysAtRoot ==
    ASSUME IInv, StartIsAtRoot, Next, result' = "running"
    PROVE  StartIsAtRoot'
<1>1. CASE StartBlock
    <2>1. PICK n \in Nat \ {0} : n = Len(config_stack)
        BY TopExists
    <2>2. config_stack \in Seq(Nat) /\ Len(blocks) + 1 \in Nat
        BY TopExists DEF IInv, TypeOK
    <2>3. /\ config_stack' = Append(config_stack, Len(blocks) + 1)
          /\ last_token_type' = "START_BLOCK"
        BY <1>1 DEF StartBlock, NextRound
    <2>4. Len(config_stack') = n + 1
        BY <2>1, <2>2, <2>3, BlockIsAppended
    <2>5. n + 1 > 1
        OBVIOUS
    <2> QED BY <2>3, <2>4, <2>5 DEF StartIsAtRoot
<1>2. CASE SkipComment
    BY <1>2 DEF SkipComment, StartIsAtRoot
<1>3. CASE NewStatement \/ AddToken \/ EndStatement \/ EndBlock
    BY <1>3 DEF NewStatement, AddToken, EndStatement, EndBlock, NextRound, StartIsAtRoot
<1>4. CASE EndOfFile
    BY <1>4 DEF EndOfFile
<1>5. CASE BadTransition
    BY <1>5 DEF BadTransition
<1> QED BY <1>1, <1>2, <1>3, <1>4, <1>5 DEF Next

LEMMA LaidStays ==
    ASSUME IInv, RestIsLeft, Next, result' = "running", NEW at, Laid(at)
    PROVE  RestIsLeft' /\ \E f : Laid(f)'
<1>1. RestIsLeft'
    <2>1. CASE SkipComment
        <3>1. Take("COMMENT") /\ UNCHANGED text
            BY <2>1 DEF SkipComment
        <3> QED BY <3>1, TakeReads DEF IInv
    <2>2. CASE NewStatement \/ AddToken \/ EndStatement \/ StartBlock \/ EndBlock
        <3>1. PICK type \in TokenKinds : Take(type) /\ UNCHANGED text
            <4>1. \E type \in TokenKinds : Take(type)
                BY <2>2, Zenon DEF NewStatement, AddToken, EndStatement, StartBlock, EndBlock,
                                   TokenKinds
            <4>2. UNCHANGED text
                BY <2>2 DEF NewStatement, AddToken, EndStatement, StartBlock, EndBlock, NextRound
            <4> QED BY <4>1, <4>2
        <3> QED BY <3>1, TakeReads DEF IInv
    <2>3. CASE EndOfFile
        BY <2>3 DEF EndOfFile
    <2>4. CASE BadTransition
        BY <2>4 DEF BadTransition
    <2> QED BY <2>1, <2>2, <2>3, <2>4 DEF Next
<1>2. \E f : Laid(f)'
    <2>1. CASE SkipComment
        BY <2>1, LaidSkipComment
    <2>2. CASE NewStatement
        BY <2>2, LaidNewStatement
    <2>3. CASE AddToken
        BY <2>3, LaidAddToken
    <2>4. CASE EndStatement
        BY <2>4, LaidEndStatement
    <2>5. CASE StartBlock
        BY <2>5, LaidStartBlock
    <2>6. CASE EndBlock
        BY <2>6, LaidEndBlock
    <2>7. CASE EndOfFile
        BY <2>7 DEF EndOfFile
    <2>8. CASE BadTransition
        BY <2>8 DEF BadTransition
    <2> QED BY <2>1, <2>2, <2>3, <2>4, <2>5, <2>6, <2>7, <2>8 DEF Next
<1> QED BY <1>1, <1>2

LEMMA CompletableInit ==
    ASSUME Init, Grammatical
    PROVE  Completable
<1>1. TypeOK /\ Count = 0
    BY InitInvariant, LaidInit DEF IInv
<1>2. config_stack = <<1>> /\ last_token_type = "START"
    BY DEF Init
<1>3. Size \in Nat /\ Size \in Ends[0]
    BY <1>1, TypesAre DEF Grammatical, IsConfig, Ends
<1>4. PICK e : e = [l \in 1 .. 1 |-> Size]
    OBVIOUS
<1>5. Len(config_stack) = 1 /\ 1 \in 1 .. 1 /\ \A l \in 1 .. 1 : ~(l > 1)
    BY <1>2
<1>6. e \in [1 .. 1 -> 0 .. Size] /\ e[1] = Size
    BY <1>3, <1>4
<1>7. Closing(e)
    BY <1>5, <1>6 DEF Closing
<1>8. Follows(Count, e[Len(config_stack)])
    BY <1>1, <1>2, <1>3, <1>5, <1>6 DEF Follows
<1> QED BY <1>7, <1>8 DEF Completable

\* As long as Parse runs, the rest of the file is before it, the file can be completed
\* when it is one of the grammar, and what was read stands in the tree; its answer is
\* the right one.
ParseInv ==
    /\ result = "running" => /\ RestIsLeft /\ StartIsAtRoot
                             /\ Grammatical => Completable
                             /\ \E at : Laid(at)
    /\ result = "true" => Grammatical /\ BlockTokens[1] = Values(Tokens)
    /\ result = "false" => ~Grammatical

LEMMA TreeStays ==
    ASSUME UNCHANGED <<text, blocks>>
    PROVE  BlockTokens' = BlockTokens /\ Values(Tokens)' = Values(Tokens)
<1>1. TokensFrom' = TokensFrom
    BY TokensFromStays
<1>2. Tokens' = Tokens
    BY <1>1 DEF Tokens
<1>3. Values(Tokens)' = Values(Tokens)
    BY <1>2 DEF Values
<1>4. BlockTokens' = BlockTokens
    BY DEF BlockTokens
<1> QED BY <1>3, <1>4

LEMMA ParseInvInit == Init => ParseInv
<1> SUFFICES ASSUME Init PROVE ParseInv
    OBVIOUS
<1>1. RestIsLeft /\ \E at : Laid(at)
    BY LaidInit
<1>2. Grammatical => Completable
    BY CompletableInit
<1>3. result = "running"
    BY DEF Init
<1>4. StartIsAtRoot
    <2>1. Len(config_stack) = 1 /\ last_token_type = "START"
        BY DEF Init
    <2> QED BY <2>1 DEF StartIsAtRoot
<1> QED BY <1>1, <1>2, <1>3, <1>4 DEF ParseInv

LEMMA ParseInvStep == IInv /\ ParseInv /\ [Next]_vars => ParseInv'
<1> SUFFICES ASSUME IInv, ParseInv, [Next]_vars PROVE ParseInv'
    OBVIOUS
<1>1. CASE UNCHANGED vars
    <2>1. UNCHANGED <<text, pos, config_stack, blocks, last_token_type, result>>
        BY <1>1 DEF vars
    <2>2. /\ All' = All /\ Ends' = Ends /\ Size' = Size /\ (Grammatical' <=> Grammatical)
          /\ TokensFrom' = TokensFrom
        BY <2>1, AllStays, EndsStay, TokensFromStays
    <2>3. Count' = Count
        BY <2>1, <2>2 DEF Count
    <2>4. RestIsLeft' <=> RestIsLeft
        BY <2>1, <2>2, <2>3 DEF RestIsLeft
    <2>5. StartIsAtRoot' <=> StartIsAtRoot
        BY <2>1 DEF StartIsAtRoot
    <2>6. Completable => Completable'
        <3>1. SUFFICES ASSUME Completable PROVE Completable'
            OBVIOUS
        <3>2. PICK e : Closing(e) /\ Follows(Count, e[Len(config_stack)])
            BY <3>1 DEF Completable
        <3>3. Closing(e)'
            BY <2>1, <3>2, ClosingStays
        <3>4. Follows(Count, e[Len(config_stack)])'
            BY <2>1, <2>2, <2>3, <3>2, GoesOnStays DEF Follows
        <3> QED BY <3>3, <3>4 DEF Completable
    <2>7. ASSUME NEW at PROVE Laid(at)' <=> Laid(at)
        <3>1. \A b, n : StatementAt(at, b, n)' <=> StatementAt(at, b, n)
            BY <2>1, <2>2, <2>3 DEF StatementAt
        <3>2. \A b, n : EndAt(at, b, n)' <=> EndAt(at, b, n)
            BY <2>1, <2>2, <2>3 DEF EndAt
        <3>3. \A b : Closed(b)' <=> Closed(b)
            BY <2>1 DEF Closed, Top
        <3>4. LaidTokens(at)' <=> LaidTokens(at)
            BY <2>1, <3>1, <3>2, <3>3 DEF LaidTokens
        <3>5. LaidUpTo(at, Top, Len(blocks[Top]))' = LaidUpTo(at, Top, Len(blocks[Top]))
            BY <2>1 DEF LaidUpTo, Top
        <3> QED BY <2>3, <3>4, <3>5 DEF Laid
    <2>8. BlockTokens' = BlockTokens /\ Values(Tokens)' = Values(Tokens)
        BY <2>1, TreeStays
    <2>9. (\E at : Laid(at)) => \E at : Laid(at)'
        BY <2>7
    <2> QED BY <2>1, <2>2, <2>4, <2>5, <2>6, <2>8, <2>9 DEF ParseInv
<1>2. CASE Next
    <2>1. result = "running" /\ UNCHANGED text
        BY <1>2 DEF Next, SkipComment, NewStatement, AddToken, EndStatement, StartBlock, EndBlock,
                    EndOfFile, BadTransition, Take, NextRound
    <2>2. RestIsLeft /\ StartIsAtRoot /\ (Grammatical => Completable)
        BY <2>1 DEF ParseInv
    <2>3. PICK at : Laid(at)
        BY <2>1 DEF ParseInv
    <2>4. Grammatical' <=> Grammatical
        BY <2>1, EndsStay
    <2>5. ASSUME result' = "running"
          PROVE  /\ RestIsLeft' /\ StartIsAtRoot' /\ (Grammatical' => Completable')
                 /\ \E f : Laid(f)'
        <3>1. RestIsLeft' /\ \E f : Laid(f)'
            BY <1>2, <2>2, <2>3, <2>5, LaidStays
        <3>2. StartIsAtRoot'
            BY <1>2, <2>2, <2>5, StartStaysAtRoot
        <3>3. Grammatical' => Completable'
            BY <1>2, <2>2, <2>4, <2>5, CompletableNext
        <3> QED BY <3>1, <3>2, <3>3
    <2>6. ASSUME result' = "true"
          PROVE  Grammatical' /\ (BlockTokens[1] = Values(Tokens))'
        <3>1. EndOfFile
            BY <1>2, <2>1, <2>6 DEF Next, SkipComment, NewStatement, AddToken, EndStatement,
                                StartBlock, EndBlock, BadTransition, NextRound
        <3>2. UNCHANGED <<text, blocks>>
            BY <3>1 DEF EndOfFile
        <3>3. Complete(at)
            BY <2>2, <2>3, <2>6, <3>1, AcceptedIsComplete
        <3>4. Grammatical /\ BlockTokens[1] = Values(Tokens)
            BY <3>3, CompleteIsGrammatical, CompleteIsTheTree
        <3> QED BY <2>4, <3>2, <3>4, TreeStays
    <2>7. ASSUME result' = "false" PROVE ~Grammatical'
        <3>1. SUFFICES ASSUME Grammatical PROVE FALSE
            BY <2>4
        <3>2. Completable /\ LexesToTheEnd
            BY <2>2, <3>1 DEF Grammatical
        <3> QED BY <1>2, <2>2, <2>7, <3>2, NotRefused
    <2> QED BY <2>5, <2>6, <2>7 DEF ParseInv
<1> QED BY <1>1, <1>2

LEMMA ParseInvariant == Spec => []ParseInv
<1>1. Spec => []IInv
    BY InductiveInvariant
<1> QED BY <1>1, ParseInvInit, ParseInvStep, PTL DEF Spec

\* For every text Parse returns true for the files of the grammar and false for the
\* others.
THEOREM AcceptsGrammar == Spec => []AcceptsTheGrammar
<1>1. IInv /\ ParseInv => AcceptsTheGrammar
    BY DEF ParseInv, Grammatical, AcceptsTheGrammar, IInv, TypeOK
<1> QED BY <1>1, InductiveInvariant, ParseInvariant, PTL

\* For every text the tree of an accepted file is the file, token by token.
THEOREM TreeIsFile == Spec => []NothingIsLost
<1>1. ParseInv => NothingIsLost
    BY DEF ParseInv, NothingIsLost
<1> QED BY <1>1, ParseInvariant, PTL

===============================================================================
