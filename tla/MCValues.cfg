CONSTANTS
    zero = zero
    v = v
    w = w
    null = null
    half = half
    r1 = r1
    r2 = r2
    none = none
    Fields = {"text", "n"}
    Others = {"x"}
    TextField = "text"
    NoField = "none"
    Values = {zero, v, w}
    Zero = zero
    Raws = {zero, v, w, null, half}
    Null = null
    Held <- HeldValues
    Sources <- SmallSources
    DataParts <- SmallParts
    Texts = {zero, v}
    MaxParts = 2
    Roles = {r1, r2}
    NoRole = none
    Triggers = {v, none}
    NoTriggers = none
    Strings = {v, none}
    NoString = none
    MaxModifiers = 4
    Structs = {"A", "B"}
    Layouts <- SmallLayouts
    Words = {"u", "v"}
    FieldNames = {"f", "g", "h"}
    Spellings <- SmallSpellings
    Messages <- SmallMessages
    Templates <- SmallTemplates
    Payloads <- SmallPayloads
SPECIFICATION ValuesSpec
INVARIANTS
    HighestLayerWins
    UntypedAgreesWithTyped
    ApprovalSurvives
    SchemaUnfolds
    TextKeepsParts
    FilledIn
CHECK_DEADLOCK FALSE
