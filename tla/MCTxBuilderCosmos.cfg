SPECIFICATION Spec
CONSTANTS
    Chains <- MCCosmos
    Facades <- MCFacades
    Drafts <- MCDrafts
    MaxBuilds = 2
    MaxHeld = 1
    None = None
INVARIANTS RebuiltCompletes
