CONSTANTS
    Cols = 2
    WsTexts = {"short"}
    MqttTexts = {"short", "long"}
    MainTexts = {"client"}
    Title = "title"
    Booting = "short"
    TextLen <- Lengths
    Losses = {}
SPECIFICATION Spec
INVARIANT LocationShown
