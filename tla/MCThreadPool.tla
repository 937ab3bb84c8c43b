---------------------------- MODULE MCThreadPool ----------------------------
\* Small pools: one worker and a queue with signals or with CancelSynchronousIo,
\* two workers, and a completion buffer that one completion fills.
EXTENDS ThreadPool

Pool(windows, workers, buffer, kinds) ==
    [windows |-> windows, max_worker_count |-> workers, buffer |-> buffer,
     kinds |-> kinds]

SmallPools ==
    {Pool(FALSE, 1, 2, {"shielded", "cancellable", "detached"}), Pool(TRUE, 1, 2, {"shielded", "cancellable"}),
     Pool(FALSE, 2, 2, {"shielded"}), Pool(FALSE, 1, 1, {"cancellable"}),
     Pool(FALSE, 2, 2, {"sigwait", "cancellable"})}

LeakPool == {Pool(FALSE, 1, 2, {"cancellable"})}

=============================================================================
