------------------------------- MODULE MCJobs -------------------------------
\* Every job together with one that is given up at any time and one that is not,
\* and two jobs that share the buffer of realpath.
EXTENDS Jobs

Partners ==
    ({p.name : p \in AllPrograms} \X {"getaddrinfo", "open"})
    \cup {<<"realpath", "realpath">>, <<"realpath", "realpath (long)">>}

=============================================================================
