------------------------------ MODULE MCBudget ------------------------------
\* Small limits for Budget: one request that has room for host calls, one
\* that has room for modules and strings.
EXTENDS Budget

Limits(counts, bytes) ==
  [r \in Resource |->
     IF r \in DOMAIN counts THEN counts[r]
     ELSE IF r \in DOMAIN bytes THEN bytes[r] ELSE 0]

HostLimits ==
  Limits([Fuel |-> 1, SourceCount |-> 1, InputCalls |-> 1, OutputCalls |-> 2,
          HostCalls |-> 2],
         [SingleSourceBytes |-> 1, SourceBytes |-> 1, InputBytes |-> 2,
          OutputBytes |-> 2, HostRequestBytes |-> 2, HostResponseBytes |-> 2,
          HostCallBytes |-> 3])

CodeLimits ==
  Limits([Fuel |-> 2, SourceCount |-> 3, ImportCount |-> 1,
          StringAllocations |-> 1],
         [SingleStringBytes |-> 7, StringBytes |-> 6, SingleSourceBytes |-> 2,
          SourceBytes |-> 4, ImportBytes |-> 2, CollectionElements |-> 2])

MCConfigs == {HostLimits, CodeLimits}

=============================================================================
