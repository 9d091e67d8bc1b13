---------------------------- MODULE MC_Execution ----------------------------
\* Execution with a right, a wrong, a crashing, a too verbose and a slow testcase.
EXTENDS Execution

Plain ==
    [status |-> "Accepted", exit |-> 0, equal |-> TRUE, extra |-> 1, time |-> 1000,
     stderr |-> <<>>]

MCRawResults ==
    {Plain,
     [Plain EXCEPT !.equal = FALSE, !.stderr = <<"frame">>],
     [Plain EXCEPT !.exit = 1, !.stderr = <<"header", "frame", "text">>],
     [Plain EXCEPT !.status = "OutputLimitExceeded", !.equal = FALSE],
     [Plain EXCEPT !.time = 2500]}

\* One that fills a request, two that exceed it together, one too large.
MCSizes == {<<1, 1, 1>>, <<2, 2, 1>>, <<1, 4, 1>>}

MCWants == {<<4, 4, 4>>, <<0, 4, 0>>}

MCCompilerOutput == <<"text", "frame", "frame">>

Rune(b, k) == [bytes |-> b, kind |-> k]

\* Messages around the limit, with wide characters, blanks and broken bytes.
MCTexts ==
    [1..3 -> {Rune(1, "char"), Rune(4, "char"), Rune(1, "space")}]
    \cup {<<Rune(2, "char"), Rune(1, "bad"), Rune(3, "char")>>}

=============================================================================
