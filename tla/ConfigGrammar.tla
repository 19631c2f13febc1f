---------------------------- MODULE ConfigGrammar ----------------------------
(***************************************************************************)
(* What ConfigParser accepts and builds, as a reference: the grammar of    *)
(* config files over tokens, and the tokens a parsed configuration stands  *)
(* for (NginxConfig::ToString, its layout left out).                       *)
(***************************************************************************)
EXTENDS ConfigParser, SequencesExt

\* The tokens of text from p on without comments, to the end of the file or an error.
TokensFrom[p \in 1 .. Len(text) + 1] ==
    LET t == ParseToken(p)
    IN IF t.type \in {"EOF", "ERROR"} THEN <<t>>
       ELSE IF t.type = "COMMENT" THEN TokensFrom[t.next]
       ELSE <<t>> \o TokensFrom[t.next]

Tokens == Front(TokensFrom[1])
LexesToTheEnd == Last(TokensFrom[1]).type = "EOF"

\* config    ::= { statement }
\* statement ::= NORMAL { NORMAL } ( ";" | "{" config "}" )
\* ends[i] has every j such that the tokens i + 1 .. j of ts are a config.
StatementEnds(ts, ends, i) ==
    {j \in i + 1 .. Len(ts) :
        \E n \in i + 1 .. j - 1 :
            /\ \A k \in i + 1 .. n : ts[k] = "NORMAL"
            /\ \/ ts[j] = "STATEMENT_END" /\ j = n + 1
               \/ /\ ts[n + 1] = "START_BLOCK" /\ ts[j] = "END_BLOCK"
                  /\ j - 1 \in ends[n + 1]}

ConfigEnds(ts) ==
    LET ends[i \in 0 .. Len(ts)] ==
            {i} \cup UNION {ends[j] : j \in StatementEnds(ts, ends, i)}
    IN ends

IsConfig(ts) == Len(ts) \in ConfigEnds(ts)[0]

Types(ts) == [k \in DOMAIN ts |-> ts[k].type]

\* The tokens without their places in the file; a mark has no value.
Written(type, value) == [type |-> type, value |-> IF type = "NORMAL" THEN value ELSE <<0, 0>>]
Values(ts) == [k \in DOMAIN ts |-> Written(ts[k].type, ts[k].value)]
Mark(type) == <<Written(type, <<0, 0>>)>>

\* ToString of a statement, when block has that of every block, and of a block.
StatementTokens(s, block) ==
    [k \in DOMAIN s.tokens |-> Written("NORMAL", s.tokens[k])]
    \o IF s.child = 0
       THEN Mark("STATEMENT_END")
       ELSE Mark("START_BLOCK") \o block[s.child] \o Mark("END_BLOCK")

BlockTokens[b \in DOMAIN blocks] ==
    FlattenSeq([n \in DOMAIN blocks[b] |-> StatementTokens(blocks[b][n], BlockTokens)])

-------------------------------------------------------------------------------

\* Parse accepts exactly the token sequences of the grammar.
AcceptsTheGrammar ==
    result # "running" => (result = "true" <=> LexesToTheEnd /\ IsConfig(Types(Tokens)))

\* A file that is accepted is in the tree token by token, in order and with its
\* nesting: ToString writes back what was read.
NothingIsLost == result = "true" => BlockTokens[1] = Values(Tokens)

\* Parse: "if we reached EOF and last token was either a STATEMENT_END or
\* END_BLOCK (i.e ; or }) or if the file is empty, return true".
SignificantEnd ==
    LET marks == {q \in 1 .. Len(text) : text[q] \notin Whitespace}
    IN marks = {} \/ text[Max(marks)] \in {";", "}"}
AcceptedIsTerminated ==
    result = "true" /\ "#" \notin Range(text) => SignificantEnd
==============================================================================
