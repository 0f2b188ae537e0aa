SPECIFICATION FairSpec
CONSTANTS
    past = past
    word = word
    empty = empty
    files = files
    history = history
    Plugins = {files, history}
    SlowPlugins = {files}
    Texts = {past, word, empty}
    Empty = empty
    KeywordPlugins <- Keywords
    GlobalPlugins = {files, history}
    History = {history}
    Repeats <- InHistory
    Tunings <- AllTunings
    MaxQueries = 2
    MaxClears = 1
CHECK_DEADLOCK FALSE
INVARIANTS TypeOK OfOneQuery OnceEach WindowComplete EmptyStaysEmpty
PROPERTY ComesToRest
