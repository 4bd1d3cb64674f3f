SPECIFICATION Spec
CONSTANTS
    None = None
    Null = Null
    Name <- MCName
    Number <- MCNumber
    ValueOf <- MCValueOf
    Alphabet <- MCAlphabet
    Few = 3
    Expression <- MCExpression
    Size <- MCSize
    Parsing <- MCParsing
    Asked <- MCChained
INVARIANTS
    JoinIsReference
CHECK_DEADLOCK FALSE
