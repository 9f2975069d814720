\* Two cores, from kernel_main's first instruction after sched::init; the
\* second core may be late or refused, in which case there is room for a
\* user thread.  Nothing but a deadline sets a timer further away than a tick.
SPECIFICATION TLiveSpec
CONSTANTS
    NCpu = 2
    NThreads = 3
    Tokens = {tok}
    NoToken = NoToken
    MaxSleep = 1
    MaxIdle <- Never
    Abandons = TRUE
INVARIANTS OneCorePerStack AddressSpaceMatches
PROPERTIES ReapableForGood ContextsInCustody Spec SleeperWakes NoStarvation
