\* Four requests under six settings, over every short config and every config with a
\* block in it.
CONSTANTS
    Malformed = Malformed
    DefaultTtl = 1
    Variants = {"left", "right", "left full", "right full"}
    VariantOf <- SomeVariants
    Originals <- SomeOriginals
    Stacks <- SomeStacks
    Flags <- SomeFlags
SPECIFICATION Spec
INVARIANTS ReinstallIsNoOp OnlyTheLastRequestCounts SurroundingsKept DuplicatesAreRefused CommandLineCannotUnprotect
