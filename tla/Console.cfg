CONSTANTS
    BUFFER_SIZE = 2
    MaxTokens = 1
    Reader = {"shell", "cmd"}
    Typed = {"glyph", "back", "enter"}
    NULL = NULL
    WINDOW_WIDTH = 54
    WINDOW_HEIGHT = 68
    BORDER_PADDING = 15
    VERTICAL_PADDING = 4
    HORIZONTAL_PADDING = 2
    CHAR_WIDTH = 8
    CHAR_HEIGHT = 16
    fontScale = 1
    MAX_COMMAND_LENGTH = 3
    MaxFeeds = 1
SPECIFICATION FairSpec
INVARIANTS NoReaderSleepsOnKeys LineIsWhatIsShown TextStaysInside
PROPERTIES StdinIsFifo EofEndsCommand
