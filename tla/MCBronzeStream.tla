--------------------------- MODULE MCBronzeStream ---------------------------
(* Small instances of BronzeStream for TLC. *)
EXTENDS BronzeStream

CONSTANTS stream, backfill

Good(id)  == [wire |-> "ok", id |-> id, sound |-> TRUE]
BadMagic  == [wire |-> "bad", id |-> 0, sound |-> FALSE]
Tombstone == [wire |-> "null", id |-> 0, sound |-> FALSE]
Foreign   == [wire |-> "ok", id |-> 9, sound |-> TRUE]

OneTopic(messages) == [t \in Topic |-> messages]

Poison    == [wire |-> "ok", id |-> 1, sound |-> FALSE]

\* Topics whose records all become rows, one with a record nothing decodes, and one
\* whose schema evolves.
Streams     == {OneTopic(<<Good(2), BadMagic>>), OneTopic(<<Good(1), Poison>>),
                OneTopic(<<Foreign, Good(1)>>)}
Plain       == {OneTopic(<<Good(1), Good(1)>>)}
WithNull    == {OneTopic(<<Good(1), Tombstone>>)}
WithBad     == {OneTopic(<<Good(1), BadMagic>>)}
Evolving    == {OneTopic(<<Good(1), Good(2)>>)}
=============================================================================
