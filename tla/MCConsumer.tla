----------------------------- MODULE MCConsumer -----------------------------
(* Consumer for TLC: the configurations of the instances.                  *)
EXTENDS Consumer, TLC

Config(named, auto_cursor, frequency, periodic, auto_credits, offset, stored_before) ==
    [named |-> named, auto_cursor |-> auto_cursor, frequency |-> frequency, periodic |-> periodic,
     auto_credits |-> auto_credits, offset |-> offset, stored |-> stored_before]

\* A cursor persisted by count and by time; a cursor and credits kept by the
\* application, which asks for an offset inside a chunk.
Builders == {Config(TRUE, TRUE, 2, TRUE, TRUE, NoOffset, 0),
             Config(TRUE, FALSE, 0, FALSE, FALSE, 1, None)}

\* Two chunks and one fault, one chunk and two faults.
Scenarios == {[last |-> 2 * ChunkSize - 1, faults |-> 1, ends |-> TRUE], [last |-> ChunkSize - 1, faults |-> 2, ends |-> TRUE]}

\* Recoveries that overtake each other: the shutdown of a session is handled when
\* the consumer already has the next.
Overtaking == Config(FALSE, FALSE, 0, FALSE, TRUE, 0, None) @@ [last |-> ChunkSize - 1, faults |-> 4, ends |-> FALSE]

\* A cursor kept by the application, of a consumer that may be stopped inside a
\* chunk when the next one has been read.
Leaving == Config(TRUE, FALSE, 0, FALSE, TRUE, 0, None) @@ [last |-> 2 * ChunkSize - 1, faults |-> 0, ends |-> TRUE]

MCConfigs == {b @@ s : b \in Builders, s \in Scenarios} \cup {Overtaking, Leaving}

\* A cursor that the time alone persists.
MCPeriodic == {Config(TRUE, TRUE, 0, TRUE, TRUE, NoOffset, None) @@ [last |-> ChunkSize - 1, faults |-> 1, ends |-> TRUE]}
=============================================================================
