--------------------------- MODULE MCConversation ---------------------------
(***************************************************************************)
(* Small instances of Conversation.                                        *)
(***************************************************************************)
EXTENDS Conversation, TLC

CONSTANTS m1, m2, b1, b2

\* The two messages say different things; a retry repeats its message's text.
DistinctTexts == m1 :> b1 @@ m2 :> b2

Postgres == [redis |-> FALSE, aware |-> TRUE]
PostgresRedis == [redis |-> TRUE, aware |-> TRUE]
Naive == [redis |-> FALSE, aware |-> FALSE]

AllDeployments == {Postgres, PostgresRedis, Naive}
OnlyPostgres == {Postgres}
OnlyPostgresRedis == {PostgresRedis}

Sym == Permutations(Workers)
=============================================================================
