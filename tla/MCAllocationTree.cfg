SPECIFICATION Spec
CONSTANTS
    TreeDepth = 3
    Contents = {"a", "b"}
INVARIANTS
    RootMatchesBuilder
    PublishedProofsVerify
    OnlyMembersVerify
CHECK_DEADLOCK FALSE
