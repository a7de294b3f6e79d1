CONSTANTS
    Args <- Arguments
    MaxArgs = 3
    MaxModels = 2
SPECIFICATION FairMainSpec
INVARIANTS OptionsAsSaid OutcomeAsSaid ExitCodeTells
PROPERTIES Termination
