SPECIFICATION AnySpec
CONSTANTS
    Wrappers = {w1, w2}
    Handles = {h1, h2, h3}
    Callbacks = {f, g}
    Type = "UV_POLL"
    NoHandle = NoHandle
    NoCallback = NoCallback
    NoCall = NoCall
PROPERTIES
    ReleasedByClose
