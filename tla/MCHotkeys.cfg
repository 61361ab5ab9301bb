SPECIFICATION Spec
CONSTANTS
    HotkeyNames <- MCHotkeyNames
    Variants <- MCVariants
    VariantsOf <- MCVariantsOf
    Criterion <- MCCriterion
    MaxThreadsOf <- MCMaxThreadsOf
    NoVariant = "none"
    HookHotkeys = {"a"}
    Buffered = {"expr", "plain", "twice"}
    Exempt = {"twice"}
    MaxThreads = 3
    MaxPresses = 3
    MaxSwitches = 2
CHECK_DEADLOCK FALSE
INVARIANTS BegunWithinLimit TicketHasThread CriterionHeld RunsPerPress
