----------------------------- MODULE MCTransfer -----------------------------
(* SaltpackTransfer on a small instance.                                    *)
EXTENDS SaltpackTransfer

\* Three byte values, blocks of two bytes.
MCByte == {1, 2, 3}
\* Writes that fill less than a block, exactly a block, and more than one.
MCPayload == {<<1>>, <<3, 1, 2>>}
\* A foreign or damaged chunk: empty, and a full block.
MCOtherChunks == {<< >>, <<2, 3>>}
\* For two faults: a foreign or damaged chunk that is empty, and so, in
\* version 1, ends a message.
MCEmptyChunk == {<< >>}
=============================================================================
