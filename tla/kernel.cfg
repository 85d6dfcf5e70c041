SPECIFICATION Spec
CONSTANTS
    NR_TASKS = 10
    CounterMod = 64
INVARIANTS TaskStateKept StackKept KernelGoesOn
PROPERTY EveryTaskRuns
