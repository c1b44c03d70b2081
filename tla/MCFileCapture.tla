--------------------------- MODULE MCFileCapture ---------------------------
EXTENDS FileCapture

\* Torn tails, one and two records, a changed last record, a changed first
\* record, a longer first record, and a log that is not one.
MCContents ==
    {<<>>,
     <<Plain>>,
     <<Plain, Newline>>,
     <<Plain, Newline, Plain>>,
     <<Plain, Newline, Plain, Newline>>,
     <<Plain, Newline, Account, Newline>>,
     <<Account, Newline, Plain, Newline>>,
     <<Plain, Plain, Newline, Plain, Newline>>}

\* Some digests have a newline byte, some have none.
MCBrokenDigests == {s \in MCContents : Len(s) \in {1, 4}}

=============================================================================
