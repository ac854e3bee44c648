---------------------------- MODULE MCVerseSession ----------------------------
EXTENDS VerseSession

Command(main, case, number, hosts, ports) ==
    [main |-> main, case |-> case, number |-> number, hosts |-> hosts, ports |-> ports]

\* Both parties on one machine, as in the documentation: every case, one of an
\* unknown name, different numbers of iterations, and lists that are refused.
MCCommands ==
    {Command("verse_bench", case, n, <<>>, <<>>) :
        case \in {"np_ot", "iknp_ot", "kkrt_ot", "all", "unknown"}, n \in 1 .. 2}
    \cup {Command("verse_bench", "np_ot", 1, <<"127.0.0.1">>, <<8089>>),
          Command("verse_bench", "np_ot", 1, <<"127.0.0.1">>, <<>>),
          Command("verse_example", "none", 1, <<>>, <<>>)}

OneMachine == [p \in Party |-> "127.0.0.1"]

\* Two machines, listed in the order of the parties.
TwoMachines == [p \in Party |-> IF p = 0 THEN "host0" ELSE "host1"]
MCCommandsTwoMachines == {Command("verse_bench", "all", 1, <<"host0", "host1">>, <<>>)}

\* One command, for a look at the log lines.
MCCommandsLog == {Command("verse_bench", "iknp_ot", 1, <<>>, <<>>)}
=============================================================================
