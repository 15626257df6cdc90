\* The pipeline editor: every part of it, one behaviour at a time.
CONSTANTS
    None = None
SPECIFICATION Spec
INVARIANTS
     WizardHolds VariablesHold 

    
CHECK_DEADLOCK FALSE
