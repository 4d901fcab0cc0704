SPECIFICATION Spec
CONSTANTS
    g1 = g1
    g2 = g2
    Guests = {g1, g2}
    Fields <- McFields
    KeyOf <- McKeyOf
    Inside <- McInside
    DEFAULT_CMDLINE <- McDefault
    Rest = "rest"
    Options <- McOptions
    Edits <- McEdits
    RootOf <- McRootOf
    MaxEdits = 1
    MaxIoErrors = 1
SYMMETRY McSymmetry
INVARIANTS TemplateUntouched DefinitionMatches FileIsDefinition RootIsDistro
CHECK_DEADLOCK FALSE
