CONSTANTS
    Apps = {"loop", "once", "client", "udp_server", "udp_client",
            "move", "copy", "remove", "cat", "demo", "editor",
            "shell", "showcase"}
    Socket = {0, 1, 2}
    TextLength = 2
    Polls = 2
    MAX_FAULTS = 2
    TX_WAIT = 2
    Host = {1, 2}
    Datagrams = 3
    Name = {"a", "b"}
    Fd = {0, 1}
    Text <- MCText
    LINE_MAX = 2
    Typing = 4
    SHELL_MAX_LINE = 3
    Letters = {32, 111, 112, 115, 117}
    Words <- MCWords
    EchoWord <- MCEcho
    ExitWord <- MCExit
SPECIFICATION MCSpec
INVARIANTS
    SocketsClosed
    ReplyToSender
    TransferSafe
    DescriptorsClosed
    EditorSaves
    AnswersLine
PROPERTIES
    ServerReturns
    EchoedBeforeClose
    ClientEnds
CHECK_DEADLOCK FALSE
